---- MODULE Spec2Model ----
(***************************************************************************)
(* Scrapify: the fetch/parse pipeline of src/main/main.py (Worker.run) and *)
(* its record sink (the openpyxl workbook Scrapify.xlsx), as a state       *)
(* machine.  One action per step of Worker.run; every signal the worker    *)
(* emits and every external call it makes is appended, in order, to the    *)
(* observable sequence `events`.                                            *)
(*                                                                         *)
(* Text is a sequence of character codes (ASCII), so that str.strip(),     *)
(* str.isprintable() and openpyxl's illegal-character check are computed   *)
(* as the code computes them.                                              *)
(***************************************************************************)
EXTENDS Integers, Sequences, FiniteSets, TLC

(* ------------------------------------------------------------------ *)
(* Bounds of the model                                                 *)
(* ------------------------------------------------------------------ *)
\* longest selection handed to a Worker in the "wide" scope
MaxSelected == 3
\* longest job list a listing adapter returns in the "deep" scope
MaxPostings == 3
\* number of consecutive runs against the same table in the "runs" scope, and
\* of Workers the window starts in the "gui" scope
MaxRuns == 2
\* elements of a listing document in which anchors repeat
MaxElements == 2
\* blocks of a detail page in which containers repeat
MaxBlocks == 2

(* ------------------------------------------------------------------ *)
(* Text                                                                *)
(* ------------------------------------------------------------------ *)
\* str.isspace() on one ASCII character: \t \n \v \f \r, FS GS RS US, space
IsSpace(c) == c \in ((9..13) \cup (28..32))

\* str.isprintable() on one ASCII character
IsPrintable(c) == c >= 32 /\ c # 127

\* openpyxl.cell.cell.ILLEGAL_CHARACTERS_RE: [\000-\010]|[\013-\014]|[\016-\037]
IsIllegal(c) == c \in ((0..8) \cup (11..12) \cup (14..31))

RECURSIVE LStrip(_)
LStrip(s) == IF s # <<>> /\ IsSpace(Head(s)) THEN LStrip(Tail(s)) ELSE s

RECURSIVE RStrip(_)
RStrip(s) ==
  IF s # <<>> /\ IsSpace(s[Len(s)]) THEN RStrip(SubSeq(s, 1, Len(s) - 1)) ELSE s

\* str.strip()
Strip(s) == RStrip(LStrip(s))

\* "".join(c for c in s if c.isprintable())
RECURSIVE Cleaned(_)
Cleaned(s) ==
  IF s = <<>> THEN <<>>
  ELSE IF IsPrintable(Head(s)) THEN <<Head(s)>> \o Cleaned(Tail(s))
  ELSE Cleaned(Tail(s))

\* openpyxl raises IllegalCharacterError when a string value holds such a character
HasIllegal(s) == \E k \in 1..Len(s) : IsIllegal(s[k])

(* ------------------------------------------------------------------ *)
(* The registry                                                        *)
(* ------------------------------------------------------------------ *)
\* three of the eight configured entries, in their order in the dict
CompanyKeys == <<"RIVR", "ANYbotics", "Gravis Robotics">>
COMPANIES == {CompanyKeys[k] : k \in 1..Len(CompanyKeys)}
COMPANIES_NO_URL == {"Hexagon AB"}
AllCompanies == COMPANIES \cup COMPANIES_NO_URL
\* cfg.get("note")
HasNote(c) == c = "ANYbotics"

(* ------------------------------------------------------------------ *)
(* What the sites can answer                                           *)
(* ------------------------------------------------------------------ *)
Engineer == <<69, 110, 103>>
Manager == <<77, 103, 114>>
\* a title with a control character inside (kept by strip)
\* (7 is BEL, 10 is a line feed, 32 is a space)
BellTitle == <<84, 7, 76>>
GreatRole == <<71, 114, 32, 114>>
\* surrounded by white space, with a line break and a control character inside
RawRole == <<32, 71, 7, 10, 114, 10>>
Blank == <<32, 10>>
Empty == <<>>

Scopes == {"wide", "deep", "runs", "gui"}

RECURSIVE DistinctSeqs(_, _)
DistinctSeqs(S, n) ==
  IF n = 0 THEN {<<>>}
  ELSE {<<>>} \cup {<<x>> \o t : x \in S, t \in DistinctSeqs(S, n - 1)}

NoRepeat(s) == \A a, b \in 1..Len(s) : a # b => s[a] # s[b]

\* the selections a Worker is constructed with
Selections(sc) ==
  CASE sc = "wide" -> {s \in DistinctSeqs(AllCompanies, MaxSelected) : s # <<>> /\ NoRepeat(s)}
    [] sc = "deep" -> {<<c>> : c \in AllCompanies}
    [] sc = "runs" -> {<<"RIVR", "ANYbotics">>}
    [] OTHER -> {}

RECURSIVE SeqsUpTo(_, _)
SeqsUpTo(S, n) ==
  IF n = 0 THEN {<<>>}
  ELSE {<<>>} \cup {<<x>> \o t : x \in S, t \in SeqsUpTo(S, n - 1)}

\* the title lists a listing page can hold
TitleLists(sc) ==
  CASE sc = "wide" -> {<<>>, <<Engineer>>}
    [] sc = "deep" -> SeqsUpTo({Engineer, Manager}, MaxPostings)
    [] sc = "runs" -> {<<>>, <<Engineer, BellTitle>>}
    [] OTHER -> {<<Engineer>>}

\* job_list: (title, detail_url) pairs; the k-th posting links to /jobs/k
JobList(titles) == [k \in 1..Len(titles) |-> <<titles[k], k>>]

\* the texts a detail adapter can return
Descriptions(sc) ==
  CASE sc \in {"runs", "gui"} -> {GreatRole}
    [] sc = "deep" -> {GreatRole, Empty}
    [] OTHER -> {GreatRole, RawRole, Blank, Empty}

\* the collaborator calls that can raise: in the "gui" scope only the save
\* does, which is enough for a run to end either way
Faults(sc) ==
  IF sc = "gui" THEN {"save"}
  ELSE {"get_listing", "listing_parser", "get_detail", "detail_parser",
        "load_workbook", "insert_row", "save"}

\* how many Workers are started one after the other
RunCap(sc) == IF sc \in {"runs", "gui"} THEN MaxRuns ELSE 1

(* ------------------------------------------------------------------ *)
(* State                                                               *)
(* ------------------------------------------------------------------ *)
VARIABLES
  scope,        \* the family of inputs this behaviour draws from
  window,       \* ScraperApp: the Run button, the radio and combo, the open message box
  parse,        \* one listing adapter call: adapter, document, API answer, result
  runs,         \* Workers started so far
  pc,           \* position of the running Worker in run()
  selected,     \* self.selected_companies
  today_date,   \* date.today(), as a day number
  idx,          \* 0-based position in the company loop
  job_list,     \* the current company's (title, detail_url) pairs
  i,            \* 1-based position in the detail loop
  all_jobs,     \* the batch: (date, company, title, description)
  wb,           \* rows of the open workbook's sheet
  j,            \* 1-based position in the insert loop
  file,         \* Scrapify.xlsx on disk
  saved,        \* history: the batches wb.save() has written, oldest first
  events        \* signals emitted and external calls made, in order

vars == <<scope, window, parse, runs, pc, selected, today_date, idx, job_list, i, all_jobs,
          wb, j, file, saved, events>>

\* Scrapify.xlsx: absent, a table (its sheet's rows), or unreadable
Absent == [state |-> "absent", rows |-> <<>>]
Corrupt == [state |-> "corrupt", rows |-> <<>>]
Table(rows) == [state |-> "table", rows |-> rows]
NoWorkbook == <<>>

NoTitle == <<>>

\* one observable event: a signal (progress, status, log, finished) or a call on a
\* collaborator (the registry, the network, an adapter, the clock, the workbook).
\* company and text are what a line names; n is a progress value, a job number or
\* a count; ok is the success flag of finished, or whether a call returned
Ev(sig, kind, company, text, n, ok) ==
  [sig |-> sig, kind |-> kind, company |-> company, text |-> text, n |-> n, ok |-> ok]

\* self.log.emit(...)
Log(kind, company, text) == Ev("log", kind, company, text, 0, TRUE)
\* self.status.emit(...)
Status(kind, company, text, n) == Ev("status", kind, company, text, n, TRUE)
\* self.progress.emit(v)
Progress(v) == Ev("progress", "value", "", NoTitle, v, TRUE)
\* self.finished.emit(ok, message): the message is one of three kinds, and the
\* "added" one holds len(all_jobs)
Finished(ok, kind, n) == Ev("finished", kind, "", NoTitle, n, ok)
\* a call on a collaborator and whether it returned (ok) or raised
Call(kind, company, n, ok) == Ev("call", kind, company, NoTitle, n, ok)
\* a call that returned text
Returned(kind, company, n, text) == Ev("call", kind, company, text, n, TRUE)

total_companies == Len(selected)
\* faulty variant: the selection is walked from its end
company_name_from_end == selected[total_companies - idx]
\* for idx, company_name in enumerate(self.selected_companies)
company_name == selected[idx + 1]

\* The progress values are computed in floats and truncated by int(); the
\* integer quotients below give the same values for up to 12 companies and
\* 8 jobs per company.
\* int((idx / total_companies) * 80)
base_progress(k, total) == (k * 80) \div total
\* int(80 / total_companies)
company_progress_range(total) == 80 \div total
\* base_progress + int(company_progress_range * 0.15)
ListingFetchedProgress(k, total) ==
  base_progress(k, total) + (company_progress_range(total) * 15) \div 100
\* base_progress + int(company_progress_range * 0.25)
ListingParsedProgress(k, total) ==
  base_progress(k, total) + (company_progress_range(total) * 25) \div 100
\* faulty variant: the per-job value forgets base_progress
JobProgressNoBase(k, total, m, n) ==
  (company_progress_range(total) * (25 * n + 60 * m)) \div (100 * n)

\* int(base_progress + 0.25 * company_progress_range + i * detail_step),
\* detail_step = company_progress_range * 0.60 / num_jobs
JobProgress(k, total, m, n) ==
  base_progress(k, total) + (company_progress_range(total) * (25 * n + 60 * m)) \div (100 * n)
\* faulty variant: the company's range ends where the next one's begins
CompanyDoneProgressNextBase(k, total) == base_progress(k + 1, total)
\* base_progress + company_progress_range
CompanyDoneProgress(k, total) == base_progress(k, total) + company_progress_range(total)
\* faulty variant: the insert loop counts from 0, not from 80
InsertProgressFromZero(m, n) == (15 * m) \div n
\* 80 + int(j * insert_step), insert_step = 15 / len(all_jobs); the float
\* product equals 15 * j / len for batches of up to 10 records (for 11 and 13
\* records the last value is 94, not 95)
InsertProgress(m, n) == 80 + (15 * m) \div n

\* the texts of company_combo are (name, suffix) pairs: a registry name as it
\* is, and f"{name} (no URL)" for a name without a URL
NoUrlSuffix == "(no URL)"
ComboItem(name) == <<name, "">>
Placeholder(name) == <<name, NoUrlSuffix>>
ComboItems ==
  {ComboItem(CompanyKeys[k]) : k \in 1..Len(CompanyKeys)}
    \cup {Placeholder(c) : c \in COMPANIES_NO_URL}

\* the window after setup_ui(): "All companies" is checked, the combo shows its
\* first item, the Run button is enabled and no message box is open
WindowReady ==
  [button |-> TRUE, radio_all |-> TRUE, chosen |-> ComboItem(CompanyKeys[1]),
   dialog |-> "none"]

\* no adapter call is under study
NoParse == [adapter |-> "none"]

Init ==
  /\ scope \in Scopes
  /\ window = WindowReady
  /\ parse = NoParse
  /\ runs = 0
  /\ pc = "idle"
  /\ selected = <<>>
  /\ today_date = 0
  /\ idx = 0
  /\ job_list = <<>>
  /\ i = 0
  /\ all_jobs = <<>>
  /\ wb = NoWorkbook
  /\ j = 0
  /\ file = Absent
  /\ saved = <<>>
  /\ events = <<>>

\* Worker(companies).start(): run() begins
WorkerStart(companies) ==
  /\ selected' = companies
  /\ runs' = runs + 1
  /\ today_date' = runs + 1
  /\ all_jobs' = <<>>
  /\ idx' = 0
  /\ job_list' = <<>>
  /\ i' = 0
  /\ j' = 0
  /\ wb' = NoWorkbook
  /\ events' = <<>>
  /\ pc' = "company"
  /\ UNCHANGED <<scope, parse, file, saved>>

\* a Worker constructed with a selection of its caller's choice
StartRun ==
  /\ pc \in {"idle", "done"}
  /\ runs < RunCap(scope)
  /\ \E sel \in Selections(scope) : WorkerStart(sel)
  /\ UNCHANGED window

(* ------------------------------------------------------------------ *)
(* The company loop                                                    *)
(* ------------------------------------------------------------------ *)
\* run() returns after the terminal signal
Terminate(evs) ==
  /\ events' = events \o evs
  /\ pc' = "done"

\* `continue` of the company loop, or falling off its end
NextCompany(evs) ==
  /\ events' = events \o evs
  /\ idx' = idx + 1
  /\ job_list' = <<>>
  /\ i' = 0
  /\ pc' = "company"

\* cfg = COMPANIES.get(company_name); if not cfg: log, continue
NoConfig ==
  /\ pc = "company"
  /\ idx < total_companies
  /\ company_name \notin COMPANIES
  /\ NextCompany(<<Call("registry_get", company_name, 0, FALSE),
                   Log("no_configuration", company_name, NoTitle)>>)
  /\ UNCHANGED <<scope, window, parse, runs, selected, today_date, all_jobs, wb, j, file, saved>>

\* the log lines and the status line that open a configured company
CompanyOpening(c) ==
  <<Call("registry_get", c, 0, TRUE), Log("company", c, NoTitle)>>
    \o (IF HasNote(c) THEN <<Log("note", c, NoTitle)>> ELSE <<>>)
    \o <<Status("fetching_listings", c, NoTitle, 0)>>

\* faulty variant: a failed listing fetch reaches the outer handler and ends the run
FetchListingFailAborts ==
  /\ pc = "company"
  /\ idx < total_companies
  /\ company_name \in COMPANIES
  /\ Terminate(CompanyOpening(company_name)
                 \o <<Call("get_listing", company_name, 0, FALSE),
                      Log("listing_fetch_failed", "", NoTitle),
                      Finished(FALSE, "error", 0)>>)
  /\ UNCHANGED <<scope, window, parse, runs, selected, today_date, idx, job_list, i, all_jobs, wb, j, file, saved>>

\* requests.get(cfg["url"]) raises, or raise_for_status() does
FetchListingFail ==
  /\ pc = "company"
  /\ "get_listing" \in Faults(scope)
  /\ idx < total_companies
  /\ company_name \in COMPANIES
  /\ NextCompany(CompanyOpening(company_name)
                   \o <<Call("get_listing", company_name, 0, FALSE),
                        Log("listing_fetch_failed", "", NoTitle)>>)
  /\ UNCHANGED <<scope, window, parse, runs, selected, today_date, all_jobs, wb, j, file, saved>>

\* the listing page arrives
FetchListingOk ==
  /\ pc = "company"
  /\ idx < total_companies
  /\ company_name \in COMPANIES
  /\ events' = events \o CompanyOpening(company_name)
                 \o <<Call("get_listing", company_name, 0, TRUE),
                      Progress(ListingFetchedProgress(idx, total_companies))>>
  /\ pc' = "parse_listing"
  /\ UNCHANGED <<scope, window, parse, runs, selected, today_date, idx, job_list, i, all_jobs, wb, j, file, saved>>

\* faulty variant: a listing adapter's exception is swallowed without a log line
ParseListingRaiseSilent ==
  /\ pc = "parse_listing"
  /\ NextCompany(<<Call("listing_parser", company_name, 0, FALSE)>>)
  /\ UNCHANGED <<scope, window, parse, runs, selected, today_date, all_jobs, wb, j, file, saved>>

\* cfg["listing_parser"](soup) raises
ParseListingRaise ==
  /\ pc = "parse_listing"
  /\ "listing_parser" \in Faults(scope)
  /\ NextCompany(<<Call("listing_parser", company_name, 0, FALSE),
                   Log("listing_parser_error", "", NoTitle)>>)
  /\ UNCHANGED <<scope, window, parse, runs, selected, today_date, all_jobs, wb, j, file, saved>>

\* faulty variant: an empty listing is reported like an adapter failure
ParseListingNoneIsError ==
  /\ pc = "parse_listing"
  /\ NextCompany(<<Call("listing_parser", company_name, 0, TRUE),
                   Log("listing_parser_error", "", NoTitle)>>)
  /\ UNCHANGED <<scope, window, parse, runs, selected, today_date, all_jobs, wb, j, file, saved>>

\* cfg["listing_parser"](soup) returns no posting
ParseListingNone ==
  /\ pc = "parse_listing"
  /\ <<>> \in TitleLists(scope)
  /\ NextCompany(<<Call("listing_parser", company_name, 0, TRUE),
                   Log("no_postings", "", NoTitle),
                   Progress(CompanyDoneProgress(idx, total_companies))>>)
  /\ UNCHANGED <<scope, window, parse, runs, selected, today_date, all_jobs, wb, j, file, saved>>

\* cfg["listing_parser"](soup) returns num_jobs > 0 postings
ParseListingJobs ==
  /\ pc = "parse_listing"
  /\ \E titles \in TitleLists(scope) :
       /\ titles # <<>>
       /\ job_list' = JobList(titles)
       /\ events' = events
            \o <<Call("listing_parser", company_name, Len(titles), TRUE),
                 Log("found", "", NoTitle),
                 Progress(ListingParsedProgress(idx, total_companies))>>
  /\ i' = 1
  /\ pc' = "fetch_detail"
  /\ UNCHANGED <<scope, window, parse, runs, selected, today_date, idx, all_jobs, wb, j, file, saved>>

(* ------------------------------------------------------------------ *)
(* The detail loop                                                     *)
(* ------------------------------------------------------------------ *)
num_jobs == Len(job_list)
title == job_list[i][1]

JobStatus == Status("job", company_name, title, i)
JobProgressEv == Progress(JobProgress(idx, total_companies, i, num_jobs))

\* the next iteration of the detail loop; after the last one the company's
\* closing progress is emitted and the company loop goes on
NextJob(evs) ==
  IF i < num_jobs
  THEN /\ events' = events \o evs
       /\ i' = i + 1
       /\ pc' = "fetch_detail"
       /\ UNCHANGED <<idx, job_list>>
  ELSE NextCompany(evs \o <<Progress(CompanyDoneProgress(idx, total_companies))>>)

\* faulty variant: a failed detail fetch leaves the detail loop (break, not continue)
FetchDetailFailBreaks ==
  /\ pc = "fetch_detail"
  /\ NextCompany(<<JobStatus,
                   Call("get_detail", company_name, i, FALSE),
                   Log("skipped_fetch_error", "", title),
                   JobProgressEv,
                   Progress(CompanyDoneProgress(idx, total_companies))>>)
  /\ UNCHANGED <<scope, window, parse, runs, selected, today_date, all_jobs, wb, j, file, saved>>

\* requests.get(detail_url) raises, or raise_for_status() does
FetchDetailFail ==
  /\ pc = "fetch_detail"
  /\ "get_detail" \in Faults(scope)
  /\ NextJob(<<JobStatus,
               Call("get_detail", company_name, i, FALSE),
               Log("skipped_fetch_error", "", title),
               JobProgressEv>>)
  /\ UNCHANGED <<scope, window, parse, runs, selected, today_date, all_jobs, wb, j, file, saved>>

\* the detail page arrives
FetchDetailOk ==
  /\ pc = "fetch_detail"
  /\ events' = events \o <<JobStatus, Call("get_detail", company_name, i, TRUE)>>
  /\ pc' = "parse_detail"
  /\ UNCHANGED <<scope, window, parse, runs, selected, today_date, idx, job_list, i, all_jobs, wb, j, file, saved>>

\* faulty variant: a detail adapter's exception reaches the outer handler
ParseDetailRaiseAborts ==
  /\ pc = "parse_detail"
  /\ Terminate(<<Call("detail_parser", company_name, i, FALSE),
                 Finished(FALSE, "error", 0)>>)
  /\ UNCHANGED <<scope, window, parse, runs, selected, today_date, idx, job_list, i, all_jobs, wb, j, file, saved>>

\* cfg["detail_parser"](detail_soup) raises
ParseDetailRaise ==
  /\ pc = "parse_detail"
  /\ "detail_parser" \in Faults(scope)
  /\ NextJob(<<Call("detail_parser", company_name, i, FALSE),
               Log("skipped_parse_error", "", title),
               JobProgressEv>>)
  /\ UNCHANGED <<scope, window, parse, runs, selected, today_date, all_jobs, wb, j, file, saved>>

\* faulty variant: the emptiness test without the strip
KeepsRecordUnstripped(description) == description # <<>>

\* if description.strip(): keep the record
KeepsRecord(description) == Strip(description) # <<>>

\* (today_date, company_name, title, description.strip())
Record(description) == <<today_date, company_name, title, Strip(description)>>

\* the log line after a parsed detail page
ParsedLog(description) ==
  IF KeepsRecord(description) THEN Log("ok", "", title) ELSE Log("no_description", "", title)

\* cfg["detail_parser"](detail_soup) returns a description
ParseDetail ==
  /\ pc = "parse_detail"
  /\ \E description \in Descriptions(scope) :
       /\ all_jobs' = IF KeepsRecord(description)
                      THEN Append(all_jobs, Record(description))
                      ELSE all_jobs
       /\ NextJob(<<Returned("detail_parser", company_name, i, description),
                    ParsedLog(description),
                    JobProgressEv,
                    Call("sleep", company_name, i, TRUE)>>)
  /\ UNCHANGED <<scope, window, parse, runs, selected, today_date, wb, j, file, saved>>

Scrape ==
  \/ NoConfig
  \/ FetchListingFail
  \/ FetchListingOk
  \/ ParseListingRaise
  \/ ParseListingNone
  \/ ParseListingJobs
  \/ FetchDetailFail
  \/ FetchDetailOk
  \/ ParseDetailRaise
  \/ ParseDetail

(* ------------------------------------------------------------------ *)
(* The record sink                                                     *)
(* ------------------------------------------------------------------ *)
\* the value of a cell that was never written
None == <<-1>>

\* ["Date", "Company", "Role", "Role description"]; the date column holds day
\* numbers, so its header is day 0, and the two role columns hold text
HEADER == <<0, "Company", <<82, 111, 108, 101>>, <<82, 111, 108, 101, 32, 100>>>>

\* the four ws.cell(row=2, ...) writes of one record and the handler of
\* IllegalCharacterError: the first illegal value ends the try block, and the
\* handler writes only column 4
WrittenRow(job) ==
  IF HasIllegal(job[3]) THEN <<job[1], job[2], None, Cleaned(job[4])>>
  ELSE IF HasIllegal(job[4]) THEN <<job[1], job[2], job[3], Cleaned(job[4])>>
  ELSE <<job[1], job[2], job[3], job[4]>>

\* faulty variant: the new row is inserted at row 1, above the header
InsertAtRow1(rows, row) == <<row>> \o rows
\* ws.insert_rows(2), then the cells of the new row 2
InsertAtRow2(rows, row) == <<Head(rows)>> \o <<row>> \o Tail(rows)

\* faulty variant: the batch is walked in discovery order
ForwardJob(k) == all_jobs[k]

\* reversed(all_jobs), 1-based k
ReversedJob(k) == all_jobs[Len(all_jobs) - k + 1]

\* faulty variant: the empty-batch exit blocks instead of emitting and returning
FinishEmptyBlocks ==
  /\ pc = "company"
  /\ idx = total_companies
  /\ all_jobs = <<>>
  /\ UNCHANGED vars

\* faulty variant: the empty-batch exit still writes the table (a file with the
\* header row if there was none)
FinishEmptyWritesTable ==
  /\ pc = "company"
  /\ idx = total_companies
  /\ all_jobs = <<>>
  /\ file' = IF file.state = "table" THEN file ELSE Table(<<HEADER>>)
  /\ Terminate(<<Call("save", "", 0, TRUE), Finished(TRUE, "no_descriptions", 0)>>)
  /\ UNCHANGED <<scope, window, parse, runs, selected, today_date, idx, job_list, i, all_jobs, wb, j, saved>>

\* the company loop is over and the batch is empty
FinishEmpty ==
  /\ pc = "company"
  /\ idx = total_companies
  /\ all_jobs = <<>>
  /\ Terminate(<<Finished(TRUE, "no_descriptions", 0)>>)
  /\ UNCHANGED <<scope, window, parse, runs, selected, today_date, idx, job_list, i, all_jobs, wb, j, file, saved>>

\* faulty variant: the sink starts as soon as the batch holds a record
BeginSinkEarly ==
  /\ pc = "company"
  /\ all_jobs # <<>>
  /\ events' = events \o <<Status("preparing", "", NoTitle, 0)>>
  /\ pc' = "open"
  /\ UNCHANGED <<scope, window, parse, runs, selected, today_date, idx, job_list, i, all_jobs, wb, j, file, saved>>

\* the company loop is over and there is something to write
BeginSink ==
  /\ pc = "company"
  /\ idx = total_companies
  /\ all_jobs # <<>>
  /\ events' = events \o <<Status("preparing", "", NoTitle, 0)>>
  /\ pc' = "open"
  /\ UNCHANGED <<scope, window, parse, runs, selected, today_date, idx, job_list, i, all_jobs, wb, j, file, saved>>

\* openpyxl.load_workbook(file_name), or a new Workbook with the header row
OpenWorkbook ==
  /\ pc = "open"
  /\ file.state # "corrupt"
  /\ wb' = IF file.state = "absent" THEN <<HEADER>> ELSE file.rows
  /\ events' = events
       \o (IF file.state = "absent"
           THEN <<Call("load_workbook", "", 0, FALSE), Call("new_workbook", "", 0, TRUE)>>
           ELSE <<Call("load_workbook", "", 0, TRUE)>>)
       \o <<Status("inserting", "", NoTitle, 0)>>
  /\ j' = 1
  /\ pc' = "insert"
  /\ UNCHANGED <<scope, window, parse, runs, selected, today_date, idx, job_list, i, all_jobs, file, saved>>

\* load_workbook raises something other than FileNotFoundError (the file is
\* locked or unreadable)
OpenFail ==
  /\ pc = "open"
  /\ file.state = "corrupt" \/ (file.state = "table" /\ "load_workbook" \in Faults(scope))
  /\ Terminate(<<Call("load_workbook", "", 0, FALSE), Finished(FALSE, "error", 0)>>)
  /\ UNCHANGED <<scope, window, parse, runs, selected, today_date, idx, job_list, i, all_jobs, wb, j, file, saved>>

\* one iteration of the insert loop
InsertRow ==
  /\ pc = "insert"
  /\ wb' = InsertAtRow2(wb, WrittenRow(ReversedJob(j)))
  /\ IF j < Len(all_jobs)
     THEN /\ events' = events \o <<Call("insert_row", "", j, TRUE),
                                   Progress(InsertProgress(j, Len(all_jobs)))>>
          /\ j' = j + 1
          /\ pc' = pc
     ELSE /\ events' = events \o <<Call("insert_row", "", j, TRUE),
                                   Progress(InsertProgress(j, Len(all_jobs))),
                                   Status("saving", "", NoTitle, 0)>>
          /\ j' = j
          /\ pc' = "save"
  /\ UNCHANGED <<scope, window, parse, runs, selected, today_date, idx, job_list, i, all_jobs, file, saved>>

\* any other exception in the insert loop reaches the outer handler
InsertFault ==
  /\ pc = "insert"
  /\ "insert_row" \in Faults(scope)
  /\ Terminate(<<Call("insert_row", "", j, FALSE), Finished(FALSE, "error", 0)>>)
  /\ UNCHANGED <<scope, window, parse, runs, selected, today_date, idx, job_list, i, all_jobs, wb, j, file, saved>>

\* faulty variant: the terminal signal is emitted before the last progress and
\* status values
SaveOkFinishedFirst ==
  /\ pc = "save"
  /\ file' = Table(wb)
  /\ saved' = Append(saved, all_jobs)
  /\ Terminate(<<Call("save", "", 0, TRUE),
                 Finished(TRUE, "added", Len(all_jobs)),
                 Progress(100),
                 Status("done", "", NoTitle, 0)>>)
  /\ UNCHANGED <<scope, window, parse, runs, selected, today_date, idx, job_list, i, all_jobs, wb, j>>

\* wb.save(file_name) returns
SaveOk ==
  /\ pc = "save"
  /\ file' = Table(wb)
  /\ saved' = Append(saved, all_jobs)
  /\ Terminate(<<Call("save", "", 0, TRUE),
                 Progress(100),
                 Status("done", "", NoTitle, 0),
                 Finished(TRUE, "added", Len(all_jobs))>>)
  /\ UNCHANGED <<scope, window, parse, runs, selected, today_date, idx, job_list, i, all_jobs, wb, j>>

\* faulty variant: a failed save is swallowed and the run reports its rows as added
SaveFailReportsSuccess ==
  /\ pc = "save"
  /\ file' \in {file, Corrupt}
  /\ Terminate(<<Call("save", "", 0, FALSE),
                 Progress(100),
                 Status("done", "", NoTitle, 0),
                 Finished(TRUE, "added", Len(all_jobs))>>)
  /\ UNCHANGED <<scope, window, parse, runs, selected, today_date, idx, job_list, i, all_jobs, wb, j, saved>>

\* wb.save(file_name) raises: before the file is touched, or part-way through
SaveFail ==
  /\ pc = "save"
  /\ "save" \in Faults(scope)
  /\ file' \in {file, Corrupt}
  /\ Terminate(<<Call("save", "", 0, FALSE), Finished(FALSE, "error", 0)>>)
  /\ UNCHANGED <<scope, window, parse, runs, selected, today_date, idx, job_list, i, all_jobs, wb, j, saved>>

Sink ==
  \/ FinishEmpty
  \/ BeginSink
  \/ OpenWorkbook
  \/ OpenFail
  \/ InsertRow
  \/ InsertFault
  \/ SaveOk
  \/ SaveFail

(* ------------------------------------------------------------------ *)
(* The window                                                          *)
(* ------------------------------------------------------------------ *)
\* chosen in COMPANIES_NO_URL or chosen.endswith("(no URL)")
IsPlaceholder(chosen) ==
  \/ chosen[2] = "" /\ chosen[1] \in COMPANIES_NO_URL
  \/ chosen[2] = NoUrlSuffix

\* faulty variant: a placeholder is passed on to the Worker like any other text
SelectedUnchecked(radio_all, chosen) ==
  IF radio_all THEN CompanyKeys ELSE <<chosen[1]>>

\* _get_selected_companies(): list(COMPANIES.keys()), [] or [chosen]
get_selected_companies(radio_all, chosen) ==
  IF radio_all THEN CompanyKeys
  ELSE IF IsPlaceholder(chosen) THEN <<>>
  ELSE <<chosen[1]>>

\* faulty variant: the click starts the Worker and leaves the button enabled
start_scraper_button_enabled ==
  /\ scope = "gui"
  /\ window.button
  /\ window.dialog = "none"
  /\ \E radio_all \in BOOLEAN, chosen \in ComboItems :
       LET companies == get_selected_companies(radio_all, chosen)
           picked == [window EXCEPT !.radio_all = radio_all, !.chosen = chosen]
       IN IF companies = <<>>
          THEN /\ window' = [picked EXCEPT !.dialog = "warning"]
               /\ UNCHANGED <<scope, parse, runs, pc, selected, today_date, idx,
                              job_list, i, all_jobs, wb, j, file, saved, events>>
          ELSE /\ runs < RunCap(scope)
               /\ window' = picked
               /\ WorkerStart(companies)

\* the user sets the radio buttons and the combo and clicks "Run Scraper"
start_scraper ==
  /\ scope = "gui"
  /\ window.button
  /\ window.dialog = "none"
  /\ \E radio_all \in BOOLEAN, chosen \in ComboItems :
       LET companies == get_selected_companies(radio_all, chosen)
           picked == [window EXCEPT !.radio_all = radio_all, !.chosen = chosen]
       IN IF companies = <<>>
          THEN /\ window' = [picked EXCEPT !.dialog = "warning"]
               /\ UNCHANGED <<scope, parse, runs, pc, selected, today_date, idx,
                              job_list, i, all_jobs, wb, j, file, saved, events>>
          ELSE /\ runs < RunCap(scope)
               /\ window' = [picked EXCEPT !.button = FALSE]
               /\ WorkerStart(companies)

\* the slot of Worker.finished: the button is enabled again and a message box
\* shows the summary message
scraper_finished ==
  /\ scope = "gui"
  /\ pc = "done"
  /\ ~window.button
  /\ window' = [window EXCEPT
                  !.button = TRUE,
                  !.dialog = IF events[Len(events)].ok THEN "information" ELSE "critical"]
  /\ UNCHANGED <<scope, parse, runs, pc, selected, today_date, idx, job_list, i,
                 all_jobs, wb, j, file, saved, events>>

\* the user closes the open message box
MessageBoxClosed ==
  /\ scope = "gui"
  /\ window.dialog # "none"
  /\ window' = [window EXCEPT !.dialog = "none"]
  /\ UNCHANGED <<scope, parse, runs, pc, selected, today_date, idx, job_list, i,
                 all_jobs, wb, j, file, saved, events>>

Window ==
  \/ start_scraper
  \/ scraper_finished
  \/ MessageBoxClosed

Next == StartRun \/ Scrape \/ Sink \/ Window

Spec == Init /\ [][Next]_vars

\* A started Worker thread keeps running until run() returns: requests.get has
\* a timeout, time.sleep(0.4) and the workbook calls return, and nothing in
\* run() waits for the window. The window's steps are the user's and carry no
\* fairness.
FairSpec == Spec /\ WF_vars(Scrape \/ Sink)

(* ------------------------------------------------------------------ *)
(* Reading the observable sequence                                     *)
(* ------------------------------------------------------------------ *)
Positions == 1..Len(events)
IsCall(e, kind) == e.sig = "call" /\ e.kind = kind
IsLog(e, kind) == e.sig = "log" /\ e.kind = kind
Done == pc = "done"
LastEvent == events[Len(events)]

\* the selected companies whose iteration of the company loop is over
CompaniesDone == {selected[k] : k \in 1..idx}

ListingFailed(c) ==
  \E p \in Positions :
    /\ IsCall(events[p], "get_listing") \/ IsCall(events[p], "listing_parser")
    /\ events[p].company = c
    /\ ~events[p].ok

ListingFetches(c) ==
  {p \in Positions : IsCall(events[p], "get_listing") /\ events[p].company = c}
DetailFetches(c) ==
  {p \in Positions : IsCall(events[p], "get_detail") /\ events[p].company = c}
RecordsOf(c) == SelectSeq(all_jobs, LAMBDA r : r[2] = c)

(* ------------------------------------------------------------------ *)
(* C1                                                                  *)
(* ------------------------------------------------------------------ *)
\* C1: a company whose listing fetch fails or whose listing adapter raises is
\* over at once (one log line, then the next company or the end of the loop),
\* with no detail fetch and no record; every configured company whose turn has
\* passed had its listing page fetched exactly once, and the run leaves the
\* company loop only after every selected company had its turn.
C1_ListingFailureIsolated ==
  /\ \A c \in AllCompanies :
       ListingFailed(c) =>
         /\ c \in CompaniesDone
         /\ DetailFetches(c) = {}
         /\ RecordsOf(c) = <<>>
  /\ \A p \in Positions :
       (/\ IsCall(events[p], "get_listing") \/ IsCall(events[p], "listing_parser")
        /\ ~events[p].ok) =>
         /\ p < Len(events)
         /\ events[p + 1].sig = "log"
         /\ p + 2 <= Len(events) =>
              events[p + 2].kind \in {"registry_get", "no_descriptions", "preparing"}
  /\ \A k \in 1..idx :
       selected[k] \in COMPANIES => Cardinality(ListingFetches(selected[k])) = 1
  /\ pc \in {"open", "insert", "save", "done"} => idx = Len(selected)

\* company 2 of 3 failed at its listing page; companies 1 and 3 gave records
C1_Witness ==
  /\ Done
  /\ Len(selected) = 3
  /\ ListingFailed(selected[2])
  /\ RecordsOf(selected[1]) # <<>>
  /\ RecordsOf(selected[3]) # <<>>

(* ------------------------------------------------------------------ *)
(* C2                                                                  *)
(* ------------------------------------------------------------------ *)
\* the calls whose failure is not fatal, and the log line of each
FailureLineOf(kind) ==
  CASE kind = "registry_get" -> "no_configuration"
    [] kind = "get_listing" -> "listing_fetch_failed"
    [] kind = "listing_parser" -> "listing_parser_error"
    [] kind = "get_detail" -> "skipped_fetch_error"
    [] kind = "detail_parser" -> "skipped_parse_error"
    [] OTHER -> "none"

NonFatalFailure(e) == e.sig = "call" /\ ~e.ok /\ FailureLineOf(e.kind) # "none"
FailureLine(e) ==
  /\ e.sig = "log"
  /\ e.kind \in {"no_configuration", "listing_fetch_failed", "listing_parser_error",
                 "skipped_fetch_error", "skipped_parse_error"}

Failures == SelectSeq(events, NonFatalFailure)
FailureLines == SelectSeq(events, FailureLine)

\* the error list a terminal event carries
RunResultErrors(e) == IF "errors" \in DOMAIN e THEN e.errors ELSE <<>>

\* the company named by the last company header logged before position p
RECURSIVE HeaderBefore(_)
HeaderBefore(p) ==
  IF p <= 1 THEN ""
  ELSE IF IsLog(events[p - 1], "company") THEN events[p - 1].company
  ELSE HeaderBefore(p - 1)

\* only company 2 of 3 failed, at its listing fetch
OnlySecondListingFails ==
  /\ Done
  /\ Len(selected) = 3
  /\ Len(Failures) = 1
  /\ IsCall(Failures[1], "get_listing")
  /\ Failures[1].company = selected[2]

KeptAt(p) ==
  /\ IsCall(events[p], "detail_parser")
  /\ events[p].ok
  /\ Strip(events[p].text) # <<>>

\* the status line that opens the iteration of the job whose call is at p
JobStatusBefore(p) == IF IsCall(events[p], "get_detail") THEN p - 1 ELSE p - 2

\* the record of the job parsed at position p
RecordAt(p) ==
  <<today_date, events[p].company, events[JobStatusBefore(p)].text, Strip(events[p].text)>>

\* the records of the jobs kept among the first p events, in order
RECURSIVE KeptRecords(_)
KeptRecords(p) ==
  IF p = 0 THEN <<>>
  ELSE IF KeptAt(p) THEN Append(KeptRecords(p - 1), RecordAt(p))
  ELSE KeptRecords(p - 1)

FailedDetail(e) ==
  /\ IsCall(e, "get_detail") \/ IsCall(e, "detail_parser")
  /\ ~e.ok
SkipLine(e) == IsLog(e, "skipped_fetch_error") \/ IsLog(e, "skipped_parse_error")

\* the jobs of company c that the detail loop has attempted
Attempted(c) == {events[p].n : p \in DetailFetches(c)}

\* C3: every detail call (fetch, parse) stands in the iteration of its own job;
\* a failed one is followed by exactly one skip line, which names that job's
\* title, and there is no other skip line; the batch holds exactly the records
\* of the jobs whose page parsed to a non-empty description, one each, in
\* order; and once a company is over, each of the n jobs of its listing has
\* been fetched exactly once, whatever happened to the others.
C3_DetailFailureIsolated ==
  /\ \A p \in Positions :
       (IsCall(events[p], "get_detail") \/ IsCall(events[p], "detail_parser")) =>
         /\ JobStatusBefore(p) >= 1
         /\ events[JobStatusBefore(p)].sig = "status"
         /\ events[JobStatusBefore(p)].kind = "job"
         /\ events[JobStatusBefore(p)].company = events[p].company
         /\ events[JobStatusBefore(p)].n = events[p].n
  /\ \A p \in Positions :
       FailedDetail(events[p]) =>
         /\ p < Len(events)
         /\ SkipLine(events[p + 1])
         /\ events[p + 1].text = events[JobStatusBefore(p)].text
  /\ Len(SelectSeq(events, SkipLine)) = Len(SelectSeq(events, FailedDetail))
  /\ all_jobs = KeptRecords(Len(events))
  /\ \A p \in Positions :
       (/\ IsCall(events[p], "listing_parser")
        /\ events[p].ok
        /\ events[p].company \in CompaniesDone) =>
         /\ Attempted(events[p].company) = 1..events[p].n
         /\ Cardinality(DetailFetches(events[p].company)) = events[p].n

\* the outcome of job m of company c
FetchFailedFor(c, m) ==
  \E p \in Positions :
    IsCall(events[p], "get_detail") /\ events[p].company = c /\ events[p].n = m /\ ~events[p].ok
KeptFor(c, m) ==
  \E p \in Positions : KeptAt(p) /\ events[p].company = c /\ events[p].n = m

\* three jobs, the second one's fetch failed, and the records are jobs 1 and 3
C3_Witness ==
  /\ Done
  /\ Len(selected) = 1
  /\ \E p \in Positions : IsCall(events[p], "listing_parser") /\ events[p].n = 3
  /\ KeptFor(selected[1], 1)
  /\ FetchFailedFor(selected[1], 2)
  /\ KeptFor(selected[1], 3)
  /\ Len(all_jobs) = 2
  /\ Len(SelectSeq(events, SkipLine)) = 1

(* ------------------------------------------------------------------ *)
(* C4                                                                  *)
(* ------------------------------------------------------------------ *)
\* a detail page was parsed at position p to nothing but white space
EmptyAt(p) ==
  /\ IsCall(events[p], "detail_parser")
  /\ events[p].ok
  /\ Strip(events[p].text) = <<>>

NoDescriptionLine(e) == IsLog(e, "no_description")
KeptCall(e) == IsCall(e, "detail_parser") /\ e.ok /\ Strip(e.text) # <<>>

\* C4: in every state each record of the batch has a description that is
\* non-empty and trimmed, and is the trimmed text of a detail page of its
\* company that was fetched and parsed; there are as many records as such
\* pages; a page that parses to an empty or white-space-only text is followed
\* by one "no description" line naming the job, and there is no other such line.
C4_RecordOnlyWithDescription ==
  /\ \A k \in 1..Len(all_jobs) :
       /\ all_jobs[k][4] # <<>>
       /\ Strip(all_jobs[k][4]) = all_jobs[k][4]
       /\ \E p \in Positions :
            /\ KeptAt(p)
            /\ events[p].company = all_jobs[k][2]
            /\ Strip(events[p].text) = all_jobs[k][4]
            /\ p > 1
            /\ IsCall(events[p - 1], "get_detail")
            /\ events[p - 1].ok
            /\ events[p - 2].text = all_jobs[k][3]
  /\ Len(all_jobs) = Len(SelectSeq(events, KeptCall))
  /\ \A p \in Positions :
       EmptyAt(p) =>
         /\ p < Len(events)
         /\ NoDescriptionLine(events[p + 1])
         /\ events[p + 1].text = events[p - 2].text
  /\ Len(SelectSeq(events, NoDescriptionLine)) = Cardinality({p \in Positions : EmptyAt(p)})

\* "Engineer" with a description and "Manager" with none: one record, one line
C4_Witness ==
  /\ Done
  /\ Len(selected) = 1
  /\ \E p \in Positions : IsCall(events[p], "listing_parser") /\ events[p].n = 2
  /\ \E p \in Positions :
       /\ p + 1 <= Len(events)
       /\ EmptyAt(p)
       /\ events[p].text = Empty
       /\ events[p + 1] = Log("no_description", "", Manager)
  /\ all_jobs = <<<<today_date, selected[1], Engineer, GreatRole>>>>
  /\ Len(SelectSeq(events, NoDescriptionLine)) = 1

(* ------------------------------------------------------------------ *)
(* C5                                                                  *)
(* ------------------------------------------------------------------ *)
\* the rows of a batch, in the order of the batch
Rows(batch) == [k \in 1..Len(batch) |-> WrittenRow(batch[k])]

\* the data rows of the saved batches, the newest batch on top
RECURSIVE NewestFirst(_)
NewestFirst(batches) ==
  IF batches = <<>> THEN <<>>
  ELSE NewestFirst(Tail(batches)) \o Rows(Head(batches))

\* the records the insert loop has inserted so far
Inserted == IF pc = "save" THEN Len(all_jobs) ELSE j - 1

\* C5: the table on disk is the header, then the rows of the batches saved so
\* far, the newest batch first, each batch in discovery order (the order of
\* all_jobs); and while a batch is inserted, the open sheet is the header,
\* then the rows of the last records of the batch (those taken so far from its
\* end) in discovery order, then the rows that were there before.
C5_PrependKeepsDiscoveryOrder ==
  /\ file.state = "table" => file.rows = <<HEADER>> \o NewestFirst(saved)
  /\ pc \in {"insert", "save"} =>
       wb = <<HEADER>>
              \o Rows(SubSeq(all_jobs, Len(all_jobs) - Inserted + 1, Len(all_jobs)))
              \o NewestFirst(saved)

\* two batches of three records or more, saved one after the other
C5_Witness ==
  /\ Done
  /\ Len(saved) = 2
  /\ Len(saved[1]) >= 3
  /\ Len(saved[2]) >= 3
  /\ file.state = "table"
  /\ Len(file.rows) = 1 + Len(saved[1]) + Len(saved[2])
  /\ file.rows[2][1] = 2
  /\ file.rows[Len(file.rows)][1] = 1

(* ------------------------------------------------------------------ *)
(* C6                                                                  *)
(* ------------------------------------------------------------------ *)
\* the description a row is to carry: the record's, without its non-printable
\* characters when the format cannot hold it
PersistedDescription(d) == IF HasIllegal(d) THEN Cleaned(d) ELSE d

\* C6 as stated: when the insert loop is over, every record of the batch has
\* its row, with the record's date, company and title unchanged and the
\* description with only the non-printable characters removed.
C6_RowCarriesRecord ==
  pc = "save" =>
    \A k \in 1..Len(all_jobs) :
      /\ wb[k + 1][1] = all_jobs[k][1]
      /\ wb[k + 1][2] = all_jobs[k][2]
      /\ wb[k + 1][3] = all_jobs[k][3]
      /\ wb[k + 1][4] = PersistedDescription(all_jobs[k][4])

(* ------------------------------------------------------------------ *)
(* C7                                                                  *)
(* ------------------------------------------------------------------ *)
IsProgress(e) == e.sig = "progress"
\* the progress values of the run, in order of emission
ProgressValues ==
  LET ps == SelectSeq(events, IsProgress) IN [k \in 1..Len(ps) |-> ps[k].n]

\* C7: the progress values a run has emitted so far never decrease.
C7_ProgressMonotone ==
  LET values == ProgressValues IN
  \A a, b \in 1..Len(values) :
    a <= b => values[a] <= values[b]

\* a run over three companies with a failure, through the sink, up to 100
C7_Witness ==
  /\ Done
  /\ Len(selected) = 3
  /\ Failures # <<>>
  /\ Len(all_jobs) >= 2
  /\ Len(ProgressValues) >= 8
  /\ ProgressValues[Len(ProgressValues)] = 100

(* ------------------------------------------------------------------ *)
(* C8                                                                  *)
(* ------------------------------------------------------------------ *)
\* C8 as stated: when the terminal event reports success, the worker has
\* emitted progress values and the last one is 100.
C8_SuccessEndsAt100 ==
  (Done /\ LastEvent.ok) =>
    /\ ProgressValues # <<>>
    /\ ProgressValues[Len(ProgressValues)] = 100

(* ------------------------------------------------------------------ *)
(* C9                                                                  *)
(* ------------------------------------------------------------------ *)
\* a step of the sink raised: load_workbook (other than for a missing file,
\* which is followed by a new workbook), the insert of a row, or save
PersistenceFailedAt(p) ==
  /\ events[p].sig = "call"
  /\ ~events[p].ok
  /\ \/ events[p].kind \in {"insert_row", "save"}
     \/ /\ events[p].kind = "load_workbook"
        /\ (p = Len(events) \/ events[p + 1].kind # "new_workbook")
PersistenceFailed == \E p \in Positions : PersistenceFailedAt(p)

\* C9: a finished run has looked up every selected company, and it reports
\* failure exactly when a step of the sink raised; whatever the number of
\* missing configurations, listing or detail failures, empty listings and
\* empty descriptions, it reports success otherwise.
C9_SuccessUnlessPersistenceFails ==
  Done =>
    /\ idx = Len(selected)
    /\ \A k \in 1..Len(selected) :
         \E p \in Positions :
           IsCall(events[p], "registry_get") /\ events[p].company = selected[k]
    /\ LastEvent.sig = "finished"
    /\ LastEvent.ok <=> ~PersistenceFailed

\* a successful run with a missing configuration, a listing failure and a
\* detail failure
C9_Witness ==
  /\ Done
  /\ LastEvent.ok
  /\ Len(selected) = 3
  /\ \E p \in Positions : IsCall(events[p], "registry_get") /\ ~events[p].ok
  /\ \E c \in AllCompanies : ListingFailed(c)
  /\ \E p \in Positions : FailedDetail(events[p])

(* ------------------------------------------------------------------ *)
(* C10                                                                 *)
(* ------------------------------------------------------------------ *)
IsAdded(e) == e.sig = "finished" /\ e.kind = "added"
InsertedOk(e) == IsCall(e, "insert_row") /\ e.ok

\* C10: a run that reports success after a non-empty batch has inserted one
\* row per record, saved the sheet (the file is the sheet, with the batch on
\* top) and says how many it added; a run in which opening the table,
\* inserting a row or saving raised ends at once with a failure event and
\* never emits the "added" event.
C10_SinkAllOrFailure ==
  /\ (Done /\ LastEvent.ok /\ all_jobs # <<>>) =>
       /\ LastEvent = Finished(TRUE, "added", Len(all_jobs))
       /\ Len(SelectSeq(events, InsertedOk)) = Len(all_jobs)
       /\ \A k \in 1..Len(all_jobs) : wb[k + 1] = WrittenRow(all_jobs[k])
       /\ \E p \in Positions : IsCall(events[p], "save") /\ events[p].ok
       /\ file = Table(wb)
       /\ saved # <<>>
       /\ saved[Len(saved)] = all_jobs
  /\ \A p \in Positions :
       PersistenceFailedAt(p) =>
         /\ Done
         /\ p + 1 = Len(events)
         /\ LastEvent = Finished(FALSE, "error", 0)
         /\ \A q \in Positions : ~IsAdded(events[q])

\* the second run's save fails after its rows were inserted; the first run's
\* table is still on disk
C10_Witness ==
  /\ Done
  /\ runs = 2
  /\ ~LastEvent.ok
  /\ \E p \in Positions : IsCall(events[p], "save") /\ ~events[p].ok
  /\ Len(all_jobs) >= 2
  /\ file.state = "table"

(* ------------------------------------------------------------------ *)
(* C11                                                                 *)
(* ------------------------------------------------------------------ *)
\* a fetch or an adapter call
IsFetchOrParse(e) ==
  /\ e.sig = "call"
  /\ e.kind \in {"get_listing", "listing_parser", "get_detail", "detail_parser"}

\* the registry has no entry for the company looked up at p
NoConfigAt(p) == IsCall(events[p], "registry_get") /\ ~events[p].ok

\* the company after c in the selection, if p holds its lookup
LooksUpSuccessorOf(c, p) ==
  /\ IsCall(events[p], "registry_get")
  /\ \E k \in 1..(Len(selected) - 1) :
       selected[k] = c /\ selected[k + 1] = events[p].company

\* the company loop is over at p: the empty-batch exit or the sink's first line
LoopOverAt(c, p) ==
  /\ c = selected[Len(selected)]
  /\ events[p] \in {Finished(TRUE, "no_descriptions", 0),
                     Status("preparing", "", NoTitle, 0)}

\* the lookup at p is followed by the "no configuration" line naming the
\* company, nothing is fetched or parsed for it, the loop goes on with the next
\* selected company, and the run fails only if the sink does
SkippedNotAborted(p) ==
  LET c == events[p].company IN
  /\ p < Len(events)
  /\ events[p + 1] = Log("no_configuration", c, NoTitle)
  /\ \A q \in Positions : IsFetchOrParse(events[q]) => events[q].company # c
  /\ p + 2 <= Len(events) => LooksUpSuccessorOf(c, p + 2) \/ LoopOverAt(c, p + 2)
  /\ (Done /\ ~LastEvent.ok) => PersistenceFailed

\* a click on "Run Scraper" (the button is enabled and no message box is open)
\* with "One company" checked and a placeholder in the combo
PlaceholderClicked ==
  /\ window.button
  /\ window.dialog = "none"
  /\ window' # window
  /\ ~window'.radio_all
  /\ IsPlaceholder(window'.chosen)

\* the warning box opens, the button stays enabled and no Worker is started
WarnsAndStartsNothing ==
  /\ window'.dialog = "warning"
  /\ window'.button
  /\ UNCHANGED <<runs, pc, selected, idx, all_jobs, events, file, saved>>

\* C11: a selected company without a registry entry is logged as "no
\* configuration", nothing is fetched for it, the company loop goes on with the
\* next selected company and the run does not fail because of it; a click on
\* Run with a placeholder chosen opens the "not configured" warning and starts
\* no run.
C11_NoConfigurationIsNonFatal ==
  /\ [](\A p \in Positions : NoConfigAt(p) => SkippedNotAborted(p))
  /\ [][PlaceholderClicked => WarnsAndStartsNothing]_vars

\* a successful run over three companies whose second one has no registry
\* entry and whose third one yields a record
C11_Witness ==
  /\ Done
  /\ LastEvent.ok
  /\ Len(selected) = 3
  /\ selected[2] \notin COMPANIES
  /\ \E p \in Positions : NoConfigAt(p) /\ events[p].company = selected[2]
  /\ \E r \in 1..Len(all_jobs) : all_jobs[r][2] = selected[3]

(* ------------------------------------------------------------------ *)
(* C12                                                                 *)
(* ------------------------------------------------------------------ *)
\* the listing adapter returned at p with no posting
ZeroListingsAt(p) ==
  /\ IsCall(events[p], "listing_parser")
  /\ events[p].ok
  /\ events[p].n = 0

\* company c is over at q: the next selected company is looked up, or the loop ends
CompanyOverAt(c, q) ==
  q <= Len(events) => LooksUpSuccessorOf(c, q) \/ LoopOverAt(c, q)

\* after the lines of job m of company c, q opens job m + 1 of c, or holds the
\* closing progress of c
NextJobAt(c, m, q) ==
  q <= Len(events) =>
    \/ /\ events[q].sig = "status"
       /\ events[q].kind = "job"
       /\ events[q].company = c
       /\ events[q].n = m + 1
    \/ /\ IsProgress(events[q])
       /\ CompanyOverAt(c, q + 1)

\* C12: an empty listing is followed by the "no postings" warning and the
\* company's closing progress, with no detail fetch for the company, and the
\* loop goes on with the next company; a description that is empty after a
\* successful parse is followed by the "no description" line, no record is
\* created for it and the loop goes on with the next job or company; neither
\* outcome adds a failure line, and the run fails only if the sink does.
C12_EmptyResultsAreInformational ==
  /\ \A p \in Positions :
       ZeroListingsAt(p) =>
         /\ p + 2 <= Len(events)
         /\ events[p + 1] = Log("no_postings", "", NoTitle)
         /\ IsProgress(events[p + 2])
         /\ DetailFetches(events[p].company) = {}
         /\ RecordsOf(events[p].company) = <<>>
         /\ CompanyOverAt(events[p].company, p + 3)
  /\ \A p \in Positions :
       EmptyAt(p) =>
         /\ p + 3 <= Len(events)
         /\ NoDescriptionLine(events[p + 1])
         /\ IsProgress(events[p + 2])
         /\ IsCall(events[p + 3], "sleep")
         /\ NextJobAt(events[p].company, events[p].n, p + 4)
  /\ Len(all_jobs) = Len(SelectSeq(events, KeptCall))
  /\ Len(FailureLines) = Len(Failures)
  /\ (Done /\ ~LastEvent.ok) => PersistenceFailed

\* a successful run over three companies: the first has no posting, the
\* second one posting without a description, the third yields the only record
C12_Witness ==
  /\ Done
  /\ LastEvent.ok
  /\ Len(selected) = 3
  /\ \E p \in Positions : ZeroListingsAt(p) /\ events[p].company = selected[1]
  /\ \E p \in Positions : EmptyAt(p) /\ events[p].company = selected[2]
  /\ Len(all_jobs) = 1
  /\ all_jobs[1][2] = selected[3]
  /\ Failures = <<>>

(* ------------------------------------------------------------------ *)
(* The listing adapters                                                *)
(* ------------------------------------------------------------------ *)
\* An href or a URL is a sequence of tokens: "/", ".", a word, or a scheme with
\* its host ("https://flexion.ai"); string concatenation is \o, href[1:] is Tail.
\* cfg["url"] up to the host, per adapter
Origin(adapter) ==
  CASE adapter = "lever" -> "https://jobs.lever.co"
    [] adapter = "anybotics" -> "https://www.anybotics.com"
    [] adapter = "mimic" -> "https://www.mimicrobotics.com"
    [] adapter = "leica" -> "https://leica-geosystems.com"
    [] adapter = "hexagon_robotics" -> "https://robotics.hexagon.com"
    [] adapter = "flexion" -> "https://flexion.ai"
    [] OTHER -> "https://www.flyability.com"

\* the listing_parser entries of the registry (RIVR and Gravis share "lever")
Adapters ==
  {"lever", "anybotics", "mimic", "leica", "hexagon_robotics", "flexion", "flyability"}

\* a host that belongs to none of the sites
Elsewhere == "https://apply.workable.com"

\* the tokens that start with "http"
HttpTokens == {Origin(a) : a \in Adapters} \cup {Elsewhere}

\* the path careers/leica/job/7 passes the keyword test of every anchor scanner
JobPath == <<"careers", "/", "leica", "/", "job", "/", "7">>
Rooted == <<"/">> \o JobPath
Dotted == <<".", "/">> \o JobPath
Bare == JobPath
Absolute == <<Elsewhere, "/", "Careers", "/", "leica", "/", "job", "/", "7">>
\* another posting's page
OtherRooted == <<"/", "careers", "/", "leica", "/", "job", "/", "8">>
\* a link that is no posting
About == <<"/", "about">>
NoHref == <<>>

\* str.lower() on the words that occur
LowerWord(w) == IF w = "Careers" THEN "careers" ELSE w
LowerHref(href) == [k \in 1..Len(href) |-> LowerWord(href[k])]

\* "/word/" in href.lower()
HasSegment(href, word) ==
  LET h == LowerHref(href) IN
  \E k \in 1..(Len(h) - 2) : h[k] = "/" /\ h[k + 1] = word /\ h[k + 2] = "/"

\* the tokens that hold the letters of kw
TokensWith(kw) ==
  CASE kw = "job" -> {"job", "https://jobs.lever.co"}
    [] kw = "leica" -> {"leica", "https://leica-geosystems.com"}
    [] OTHER -> {"https://robotics.hexagon.com"}

\* kw in href.lower(), for kw in "job", "leica", "hexagon"
HasLetters(href, kw) ==
  LET h == LowerHref(href) IN \E k \in 1..Len(h) : h[k] \in TokensWith(kw)

\* href.startswith("http")
StartsWithHttp(href) == href # <<>> /\ href[1] \in HttpTokens
\* href.startswith("./")
StartsWithDotSlash(href) == Len(href) >= 2 /\ href[1] = "." /\ href[2] = "/"
\* href.startswith("/")
StartsWithSlash(href) == href # <<>> /\ href[1] = "/"

\* titles: "Pilot", and "Apply" (a word flyability skips); Engineer has three
\* letters, one too few for the anchor scanners
Pilot == <<80, 105, 108, 111, 116>>
Apply == <<65, 112, 112, 108, 121>>

\* str.lower() on a text
LowerText(t) == [k \in 1..Len(t) |-> IF t[k] \in 65..90 THEN t[k] + 32 ELSE t[k]]
\* word in text
InText(word, t) ==
  \E k \in 0..(Len(t) - Len(word)) : SubSeq(t, k + 1, k + Len(word)) = word
\* "open position", "back", "apply", "see all", "view all"
SkipWords ==
  {<<111, 112, 101, 110, 32, 112, 111, 115, 105, 116, 105, 111, 110>>,
   <<98, 97, 99, 107>>,
   <<97, 112, 112, 108, 121>>,
   <<115, 101, 101, 32, 97, 108, 108>>,
   <<118, 105, 101, 119, 32, 97, 108, 108>>}

\* One element of a listing document:
\*   "posting"    <div class="posting"><a class="posting-title" href><h5>title
\*   "posting_no_h5"  <div class="posting"><a class="posting-title" href>title
\*   "anchor"     <a href>title
\*   "h5_anchor"  <h5><a href>title
\*   "anchor_h5"  <a href><h5>title
\*   "para"       <p>title
\* href = NoHref stands for an element without its <a href>.
Element(kind, text, href) == [kind |-> kind, title |-> text, href |-> href]

\* soup.find_all("a", href=True)
IsAnchor(el) ==
  /\ el.kind \in {"posting", "posting_no_h5", "anchor", "h5_anchor", "anchor_h5"}
  /\ el.href # NoHref
\* an <h5> with an <a href> inside
IsH5WithAnchor(el) == el.kind = "h5_anchor" /\ el.href # NoHref
\* an <h5> with an <a href> inside or around it
IsH5NearAnchor(el) ==
  el.kind \in {"posting", "h5_anchor", "anchor_h5"} /\ el.href # NoHref

\* what a call of a listing adapter ends in: the list it returns, or an exception
Result(jobs) == [raised |-> FALSE, jobs |-> jobs]
RaisedResult == [raised |-> TRUE, jobs |-> <<>>]

\* lever_listing_parser(soup): every div.posting with an h5 and a titled link
IsLeverPosting(el) == el.kind = "posting" /\ el.href # NoHref
lever_listing_parser(soup) ==
  LET posts == SelectSeq(soup, IsLeverPosting)
  IN Result([k \in 1..Len(posts) |-> <<Strip(posts[k].title), posts[k].href>>])

\* url.strip() on tokens: " " is the only white space that occurs
RECURSIVE TrimLeft(_)
TrimLeft(u) == IF u # <<>> /\ Head(u) = " " THEN TrimLeft(Tail(u)) ELSE u
RECURSIVE TrimRight(_)
TrimRight(u) ==
  IF u # <<>> /\ u[Len(u)] = " " THEN TrimRight(SubSeq(u, 1, Len(u) - 1)) ELSE u
TrimUrl(u) == TrimRight(TrimLeft(u))

\* the loop over data.get("jobs", []): title and url stripped, both non-empty
IsApiPosting(job) == Strip(job[1]) # <<>> /\ TrimUrl(job[2]) # <<>>
ApiJobs(data) ==
  LET ok == SelectSeq(data, IsApiPosting)
  IN [k \in 1..Len(ok) |-> <<Strip(ok[k][1]), TrimUrl(ok[k][2])>>]

\* faulty variant: no try block around the API call
anybotics_listing_parser_unguarded(soup, api) ==
  IF api.raises THEN RaisedResult ELSE Result(ApiJobs(api.jobs))

\* anybotics_listing_parser(soup): the Workable API's postings, or [] when
\* the call, the status check or the decoding raises
anybotics_listing_parser(soup, api) ==
  IF api.raises THEN Result(<<>>) ELSE Result(ApiJobs(api.jobs))

\* href if href.startswith("http") else origin + href
OriginPlus(origin, href) == IF StartsWithHttp(href) THEN href ELSE <<origin>> \o href

\* len(title) > 3 of a non-empty stripped title
LongTitle(el) == Strip(el.title) # <<>> /\ Len(Strip(el.title)) > 3

\* mimic_listing_parser(soup)
MimicKeeps(el) ==
  /\ IsAnchor(el)
  /\ \E kw \in {"jobs", "careers", "job"} : HasSegment(el.href, kw)
  /\ LongTitle(el)
mimic_listing_parser(soup) ==
  LET kept == SelectSeq(soup, MimicKeeps)
  IN Result([k \in 1..Len(kept) |->
               <<Strip(kept[k].title), OriginPlus(Origin("mimic"), kept[k].href)>>])

\* leica_listing_parser(soup): the except branch scans the document
LeicaKeeps(el) ==
  /\ IsAnchor(el)
  /\ HasLetters(el.href, "job")
  /\ HasLetters(el.href, "leica") \/ HasLetters(el.href, "hexagon")
  /\ LongTitle(el)
LeicaHtmlFallback(soup) ==
  LET kept == SelectSeq(soup, LeicaKeeps)
  IN [k \in 1..Len(kept) |->
        <<Strip(kept[k].title), OriginPlus(Origin("leica"), kept[k].href)>>]
leica_listing_parser(soup, api) ==
  IF api.raises THEN Result(LeicaHtmlFallback(soup)) ELSE Result(ApiJobs(api.jobs))

\* hexagon_robotics_listing_parser(soup)
HexagonKeeps(el) == IsH5WithAnchor(el) /\ Strip(el.title) # <<>>
hexagon_robotics_listing_parser(soup) ==
  LET kept == SelectSeq(soup, HexagonKeeps)
  IN Result([k \in 1..Len(kept) |->
               <<Strip(kept[k].title), OriginPlus(Origin("hexagon_robotics"), kept[k].href)>>])

\* flexion_listing_parser(soup): "Build absolute URL"
FlexionUrl(href) ==
  IF StartsWithDotSlash(href) THEN <<Origin("flexion")>> \o Tail(href)
  ELSE IF StartsWithSlash(href) THEN <<Origin("flexion")>> \o href
  ELSE IF ~StartsWithHttp(href) THEN <<Origin("flexion"), "/">> \o href
  ELSE href

\* the loop with its `seen` set of URLs
RECURSIVE FlexionJobs(_, _)
FlexionJobs(h5s, seen) ==
  IF h5s = <<>> THEN <<>>
  ELSE LET text == Strip(Head(h5s).title)
           url == FlexionUrl(Head(h5s).href)
       IN IF text # <<>> /\ url # <<>> /\ url \notin seen
          THEN <<<<text, url>>>> \o FlexionJobs(Tail(h5s), seen \cup {url})
          ELSE FlexionJobs(Tail(h5s), seen)
flexion_listing_parser(soup) == Result(FlexionJobs(SelectSeq(soup, IsH5NearAnchor), {}))

\* flyability_listing_parser(soup)
FlyabilityKeeps(el) ==
  /\ IsAnchor(el)
  /\ \E kw \in {"career", "careers", "job", "position"} : HasSegment(el.href, kw)
  /\ LongTitle(el)
  /\ \A skip \in SkipWords : ~InText(skip, LowerText(Strip(el.title)))
\* "Deduplicate by title"
RECURSIVE UniqueByTitle(_, _)
UniqueByTitle(jobs, seen_titles) ==
  IF jobs = <<>> THEN <<>>
  ELSE IF Head(jobs)[1] \in seen_titles THEN UniqueByTitle(Tail(jobs), seen_titles)
  ELSE <<Head(jobs)>> \o UniqueByTitle(Tail(jobs), seen_titles \cup {Head(jobs)[1]})
flyability_listing_parser(soup) ==
  LET kept == SelectSeq(soup, FlyabilityKeeps)
      jobs == [k \in 1..Len(kept) |->
                 <<Strip(kept[k].title), OriginPlus(Origin("flyability"), kept[k].href)>>]
  IN Result(UniqueByTitle(jobs, {}))

\* what a listing page can hold: every single element, and the documents of up
\* to MaxElements postings in which an anchor, a title or a URL can repeat
Kinds == {"posting", "posting_no_h5", "anchor", "h5_anchor", "anchor_h5"}
Elements ==
  {Element(kind, text, href) :
     kind \in Kinds, text \in {Pilot, Engineer, Apply, Empty},
     href \in {Rooted, Dotted, Bare, Absolute, About, NoHref}}
    \cup {Element("para", text, NoHref) : text \in {Pilot, Empty}}
RepeatedElements ==
  {Element("anchor", text, href) : text \in {Pilot, GreatRole}, href \in {Rooted, OtherRooted}}
    \cup {Element("anchor_h5", Pilot, Rooted)}
Documents == {<<el>> : el \in Elements} \cup SeqsUpTo(RepeatedElements, MaxElements)

\* what the JSON API can answer: an exception (network error, status, decoding),
\* or a list of (title, url) entries
WorkablePage == <<Elsewhere, "/", "j", "/", "7">>
ApiRaises == [raises |-> TRUE, jobs |-> <<>>]
ApiReturns(jobs) == [raises |-> FALSE, jobs |-> jobs]
ApiAnswers ==
  {ApiRaises,
   ApiReturns(<<>>),
   ApiReturns(<<<<Pilot, WorkablePage>>>>),
   ApiReturns(<<<<Blank, WorkablePage>>, <<Pilot, <<" ">> \o WorkablePage \o <<" ">>>>>>)}
\* the adapters that call an API
ApiAdapters == {"anybotics", "leica"}
\* no API is called
Unasked == ApiReturns(<<>>)

\* one call of a listing adapter, before it is made
ParseInput(adapter, soup, api) ==
  [adapter |-> adapter, soup |-> soup, api |-> api, called |-> FALSE, out |-> Result(<<>>)]
ParseInputs ==
  {ParseInput(a, d, Unasked) : a \in Adapters \ ApiAdapters, d \in Documents}
    \cup {ParseInput(a, d, x) : a \in ApiAdapters, d \in Documents, x \in ApiAnswers}

AdapterInit ==
  /\ scope = "adapters"
  /\ window = WindowReady
  /\ parse \in ParseInputs
  /\ runs = 0
  /\ pc = "idle"
  /\ selected = <<>>
  /\ today_date = 0
  /\ idx = 0
  /\ job_list = <<>>
  /\ i = 0
  /\ all_jobs = <<>>
  /\ wb = NoWorkbook
  /\ j = 0
  /\ file = Absent
  /\ saved = <<>>
  /\ events = <<>>

\* cfg["listing_parser"](soup) for the adapter under study
Extracts(result) ==
  /\ ~parse.called
  /\ parse' = [parse EXCEPT !.called = TRUE, !.out = result]
  /\ UNCHANGED <<scope, window, runs, pc, selected, today_date, idx, job_list, i,
                 all_jobs, wb, j, file, saved, events>>

LeverListing ==
  /\ parse.adapter = "lever"
  /\ Extracts(lever_listing_parser(parse.soup))
AnyboticsListing ==
  /\ parse.adapter = "anybotics"
  /\ Extracts(anybotics_listing_parser(parse.soup, parse.api))
MimicListing ==
  /\ parse.adapter = "mimic"
  /\ Extracts(mimic_listing_parser(parse.soup))
LeicaListing ==
  /\ parse.adapter = "leica"
  /\ Extracts(leica_listing_parser(parse.soup, parse.api))
HexagonRoboticsListing ==
  /\ parse.adapter = "hexagon_robotics"
  /\ Extracts(hexagon_robotics_listing_parser(parse.soup))
FlexionListing ==
  /\ parse.adapter = "flexion"
  /\ Extracts(flexion_listing_parser(parse.soup))
FlyabilityListing ==
  /\ parse.adapter = "flyability"
  /\ Extracts(flyability_listing_parser(parse.soup))

AdapterNext ==
  \/ LeverListing
  \/ AnyboticsListing
  \/ MimicListing
  \/ LeicaListing
  \/ HexagonRoboticsListing
  \/ FlexionListing
  \/ FlyabilityListing

AdapterSpec == AdapterInit /\ [][AdapterNext]_vars

(* ------------------------------------------------------------------ *)
(* C13                                                                 *)
(* ------------------------------------------------------------------ *)
\* the adapter under study has been called
Called == parse.adapter # "none" /\ parse.called

\* the result was read from the document, not from an API answer
FromDocument == parse.adapter \notin ApiAdapters \/ parse.api.raises

\* the hrefs of the document
HrefsOf(soup) == {soup[k].href : k \in 1..Len(soup)} \ {NoHref}

\* the absolute URL an href stands for at a site's origin: /x, ./x and x
\* resolve to origin/x, and an absolute href is itself
Resolved(origin, href) ==
  IF StartsWithHttp(href) THEN href
  ELSE IF StartsWithDotSlash(href) THEN <<origin>> \o Tail(href)
  ELSE IF StartsWithSlash(href) THEN <<origin>> \o href
  ELSE <<origin, "/">> \o href

\* scheme and host, then nothing or a path that starts with "/"
WellFormed(url) ==
  /\ url # <<>>
  /\ url[1] \in HttpTokens
  /\ Len(url) > 1 => url[2] = "/"

\* C13: every detail URL an adapter returns from a document is a well-formed
\* absolute URL, namely the resolution at the adapter's origin of an href of
\* the document (an absolute href unchanged).
C13_DetailUrlsAbsolute ==
  (Called /\ FromDocument) =>
    \A k \in 1..Len(parse.out.jobs) :
      /\ WellFormed(parse.out.jobs[k][2])
      /\ parse.out.jobs[k][2] \in
           {Resolved(Origin(parse.adapter), href) : href \in HrefsOf(parse.soup)}

(* ------------------------------------------------------------------ *)
(* C14                                                                 *)
(* ------------------------------------------------------------------ *)
\* a network fetch of the pipeline
IsFetch(e) == IsCall(e, "get_listing") \/ IsCall(e, "get_detail")

\* the turn (1-based position in the selection) that position p belongs to:
\* a company's turn opens with its registry lookup
TurnAt(p) == Cardinality({q \in 1..p : IsCall(events[q], "registry_get")})

\* TurnAt of every position up to p, computed in one pass over the events
RECURSIVE TurnsUpTo(_)
TurnsUpTo(p) ==
  IF p = 0 THEN <<>>
  ELSE LET before == TurnsUpTo(p - 1) IN
       Append(before, (IF p = 1 THEN 0 ELSE before[p - 1])
                      + (IF IsCall(events[p], "registry_get") THEN 1 ELSE 0))

\* the fetches before p
FetchesBefore(p) == {q \in 1..(p - 1) : IsFetch(events[q])}
\* the last position of a non-empty set of positions
Latest(S) == CHOOSE q \in S : \A r \in S : r <= q

\* C14: in the order of the calls, the k-th company looked up is the k-th
\* selected one; every fetch and every adapter call is made for the company
\* whose turn it is, so none is made for a company before the turn of the one
\* before it is over; a turn has at most one listing fetch, which is its first
\* fetch; the detail fetches of a turn follow a successful listing fetch and
\* are numbered 1, 2, 3, ... in listing order, each made after the one before
\* it has returned or failed.
C14_StrictlySequential ==
  LET turn == TurnsUpTo(Len(events)) IN
  \A p \in Positions :
    /\ IsCall(events[p], "registry_get") => events[p].company = selected[turn[p]]
    /\ IsFetchOrParse(events[p]) =>
         /\ turn[p] >= 1
         /\ events[p].company = selected[turn[p]]
    /\ IsCall(events[p], "get_listing") =>
         \A q \in FetchesBefore(p) : turn[q] < turn[p]
    /\ IsCall(events[p], "get_detail") =>
         /\ FetchesBefore(p) # {}
         /\ LET prev == Latest(FetchesBefore(p)) IN
            /\ turn[prev] = turn[p]
            /\ events[prev].kind = (IF events[p].n = 1 THEN "get_listing" ELSE "get_detail")
            /\ events[p].n = 1 => events[prev].ok
            /\ events[p].n > 1 => events[prev].n = events[p].n - 1
         /\ \E q \in 1..(p - 1) :
              /\ IsCall(events[q], "listing_parser")
              /\ turn[q] = turn[p]
              /\ events[p].n <= events[q].n

\* a finished run over two companies with two detail fetches each
C14_Witness ==
  /\ Done
  /\ Len(selected) = 2
  /\ \A k \in 1..2 :
       \E p, q \in DetailFetches(selected[k]) : events[p].n = 1 /\ events[q].n = 2

(* ------------------------------------------------------------------ *)
(* C15                                                                 *)
(* ------------------------------------------------------------------ *)
\* a call on the workbook
IsTableCall(e) ==
  e.sig = "call" /\ e.kind \in {"load_workbook", "new_workbook", "insert_row", "save"}

\* the positions of the calls of one kind
CallsOf(kind) == {p \in Positions : IsCall(events[p], kind)}

\* the worker is in the company loop
Scraping == pc \in {"company", "parse_listing", "fetch_detail", "parse_detail"}

\* C15: in a run the workbook is loaded at most once, created at most once and
\* saved at most once, and each row of the batch is inserted at most once;
\* every call on the workbook is made after every selected company has had its
\* turn, and no lookup, fetch or adapter call follows it; no workbook is open
\* while a company is being scraped; the save follows the insertion of the
\* whole batch.
C15_TableTouchedOnceAtTheEnd ==
  /\ \A kind \in {"load_workbook", "new_workbook", "save"} : Cardinality(CallsOf(kind)) <= 1
  /\ \A p, q \in CallsOf("insert_row") : events[p].n = events[q].n => p = q
  /\ \A p \in Positions :
       IsTableCall(events[p]) =>
         /\ idx = Len(selected)
         /\ TurnAt(p) = Len(selected)
         /\ \A q \in (p + 1)..Len(events) :
              ~IsFetchOrParse(events[q]) /\ ~IsCall(events[q], "registry_get")
  /\ Scraping => wb = NoWorkbook /\ \A p \in Positions : ~IsTableCall(events[p])
  /\ \A p \in CallsOf("save") :
       {events[q].n : q \in CallsOf("insert_row")} = 1..Len(all_jobs)

\* the second of two runs loads the table the first one saved
\* and saves a batch with records of both companies
C15_Witness ==
  /\ Done
  /\ LastEvent.ok
  /\ Len(saved) = 2
  /\ \E p \in CallsOf("load_workbook") : events[p].ok
  /\ CallsOf("save") # {}
  /\ Len(selected) = 2
  /\ \A k \in 1..2 : RecordsOf(selected[k]) # <<>>

(* ------------------------------------------------------------------ *)
(* C16                                                                 *)
(* ------------------------------------------------------------------ *)
\* the positions of the terminal events of the run
TerminalEvents == {p \in Positions : events[p].sig = "finished"}

\* C16: while run() is under way no terminal event has been emitted; once it
\* has returned there is exactly one, and it is the last event of the run: no
\* progress, status or log event follows it.
C16_OneTerminalEventLast ==
  /\ pc \notin {"idle", "done"} => TerminalEvents = {}
  /\ pc = "done" => TerminalEvents = {Len(events)}

\* a run that the outer handler ended: progress, status and log events, then
\* the one terminal event with success = false
C16_Witness ==
  /\ Done
  /\ ~LastEvent.ok
  /\ LastEvent.sig = "finished"
  /\ \E p \in CallsOf("save") : ~events[p].ok
  /\ \E p, q, r \in Positions :
       IsProgress(events[p]) /\ events[q].sig = "status" /\ events[r].sig = "log"

(* ------------------------------------------------------------------ *)
(* C17                                                                 *)
(* ------------------------------------------------------------------ *)
\* run() has been entered and has not returned
Running == pc \notin {"idle", "done"}

\* run() has returned after its terminal event: every selected company has had
\* its turn, or the run was aborted and reports failure
Terminated ==
  /\ pc = "done"
  /\ LastEvent.sig = "finished"
  /\ idx = Len(selected) \/ ~LastEvent.ok

\* C17: as long as every blocking call returns or raises, a run that has
\* started ends: it emits its terminal event after every selected company has
\* had its turn, or aborts with success = false.
C17_EveryRunTerminates == Running ~> Terminated

\* a run over three companies that has ended with three records added
C17_Witness ==
  /\ Terminated
  /\ Len(selected) = 3
  /\ LastEvent.kind = "added"
  /\ LastEvent.n = 3

(* ------------------------------------------------------------------ *)
(* C18                                                                 *)
(* ------------------------------------------------------------------ *)
\* the API call of an API adapter raised
ApiRaised == Called /\ parse.adapter \in ApiAdapters /\ parse.api.raises

\* a link to a posting in the document: an anchor with a title of more than
\* three letters whose href holds "job"
IsPostingAnchor(el) == IsAnchor(el) /\ LongTitle(el) /\ HasLetters(el.href, "job")

\* C18: when the API call of an API adapter raises, the adapter does not
\* raise, and its result is scraped from the document: every entry carries the
\* text of an anchor of the document, and the result is not empty when the
\* document holds a link to a posting.
C18_ApiFailureFallsBackToHtml ==
  ApiRaised =>
    /\ ~parse.out.raised
    /\ \A k \in 1..Len(parse.out.jobs) :
         \E m \in 1..Len(parse.soup) :
           IsAnchor(parse.soup[m]) /\ parse.out.jobs[k][1] = Strip(parse.soup[m].title)
    /\ (\E m \in 1..Len(parse.soup) : IsPostingAnchor(parse.soup[m])) =>
         parse.out.jobs # <<>>

(* ------------------------------------------------------------------ *)
(* C19                                                                 *)
(* ------------------------------------------------------------------ *)
\* the adapters that scan every <a href> or <h5> of the document
AnchorScanners == {"mimic", "leica", "flexion", "flyability"}

\* no two entries of the result agree on field f (1: title, 2: URL)
Distinct(jobs, f) ==
  \A a, b \in 1..Len(jobs) : a # b => jobs[a][f] # jobs[b][f]

\* C19: the result an anchor-scanning adapter reads from one document holds no
\* two entries with the same URL, or, for flyability, which removes
\* duplicates by title, no two entries with the same title.
C19_NoDuplicateListings ==
  (Called /\ FromDocument /\ parse.adapter \in AnchorScanners) =>
    Distinct(parse.out.jobs, IF parse.adapter = "flyability" THEN 1 ELSE 2)

(* ------------------------------------------------------------------ *)
(* C20                                                                 *)
(* ------------------------------------------------------------------ *)
\* the structures an adapter looks for in the document: div.posting for lever,
\* anchors with a job keyword in the href for the anchor scanners, h5 elements
\* with an anchor for hexagon_robotics and flexion, nothing for anybotics
LooksFor(adapter, el) ==
  CASE adapter = "lever" -> el.kind \in {"posting", "posting_no_h5"}
    [] adapter = "mimic" ->
         IsAnchor(el) /\ \E kw \in {"jobs", "careers", "job"} : HasSegment(el.href, kw)
    [] adapter = "leica" ->
         /\ IsAnchor(el)
         /\ HasLetters(el.href, "job")
         /\ HasLetters(el.href, "leica") \/ HasLetters(el.href, "hexagon")
    [] adapter = "hexagon_robotics" -> IsH5WithAnchor(el)
    [] adapter = "flexion" -> IsH5NearAnchor(el)
    [] adapter = "flyability" ->
         /\ IsAnchor(el)
         /\ \E kw \in {"career", "careers", "job", "position"} : HasSegment(el.href, kw)
    [] OTHER -> FALSE

\* the document holds none of the structures the adapter under study looks for
NoStructures ==
  \A m \in 1..Len(parse.soup) : ~LooksFor(parse.adapter, parse.soup[m])

\* the adapter's result is the API's answer
FromApi == parse.adapter \in ApiAdapters /\ ~parse.api.raises

\* the entries of the API answer with a title and a url
ListedByApi ==
  {e \in 1..Len(parse.api.jobs) :
     Strip(parse.api.jobs[e][1]) # <<>> /\ TrimUrl(parse.api.jobs[e][2]) # <<>>}

\* C20 as claimed: on a document with none of its structures every adapter
\* returns the empty list, without raising, whatever the API answers.
C20_EmptyOnNoStructures ==
  (Called /\ NoStructures) => parse.out = Result(<<>>)

\* C20: no adapter raises; on a document with none of its structures an
\* adapter returns the empty list unless its result is an API answer, and then
\* it returns one entry per entry of the answer that has a title and a url,
\* whatever the document holds.
C20_EmptyUnlessApiLists ==
  Called =>
    /\ ~parse.out.raised
    /\ (NoStructures /\ ~FromApi) => parse.out.jobs = <<>>
    /\ FromApi =>
         /\ Len(parse.out.jobs) = Cardinality(ListedByApi)
         /\ \A k \in 1..Len(parse.out.jobs) :
              \E e \in ListedByApi :
                parse.out.jobs[k][1] = Strip(parse.api.jobs[e][1])

\* leica after a failed API call, on a page whose only link is no posting
C20_Witness ==
  /\ ApiRaised
  /\ parse.adapter = "leica"
  /\ Len(parse.soup) = 1
  /\ IsAnchor(parse.soup[1])
  /\ LongTitle(parse.soup[1])
  /\ NoStructures
  /\ parse.out = Result(<<>>)

(* ------------------------------------------------------------------ *)
(* C21                                                                 *)
(* ------------------------------------------------------------------ *)
\* time.sleep(0.4)
IsSleep(e) == IsCall(e, "sleep")

\* the detail fetch at q is the one after the detail fetch at p, in the same
\* company's detail loop
NextDetailFetch(p, q) ==
  /\ p < q
  /\ IsCall(events[p], "get_detail")
  /\ IsCall(events[q], "get_detail")
  /\ events[q].company = events[p].company
  /\ events[q].n = events[p].n + 1
  /\ \A r \in (p + 1)..(q - 1) : ~IsCall(events[r], "registry_get")

\* C21: between two consecutive detail fetches of a company the worker has
\* slept, whatever the outcome of the earlier one.
C21_DelayBetweenDetailFetches ==
  \A p, q \in Positions :
    NextDetailFetch(p, q) => \E r \in (p + 1)..(q - 1) : IsSleep(events[r])

(* ------------------------------------------------------------------ *)
(* C22                                                                 *)
(* ------------------------------------------------------------------ *)
\* the last position of evs that satisfies Test, 0 if there is none
LastPosition(evs, Test(_)) ==
  IF \E p \in 1..Len(evs) : Test(evs[p])
  THEN CHOOSE p \in 1..Len(evs) : Test(evs[p]) /\ \A q \in (p + 1)..Len(evs) : ~Test(evs[q])
  ELSE 0

IsLookup(e) == IsCall(e, "registry_get")
IsParsedListing(e) == IsCall(e, "listing_parser") /\ e.ok

\* the end of the range allotted to the company at 0-based position k of total
AllottedEnd(k, total) == (k * 80) \div total + 80 \div total

\* the step ends the turn of the company at 0-based position idx
CompanyDone == idx' = idx + 1

\* in evs the listing of the company looked up last was fetched and parsed
ListingParsedInLastTurn(evs) ==
  LastPosition(evs, IsParsedListing) > LastPosition(evs, IsLookup)

\* the step ends the turn of a company whose listing was fetched and parsed,
\* and the last progress value is one of that turn and the end of its range
EndsAtAllottedEnd ==
  (CompanyDone /\ ListingParsedInLastTurn(events')) =>
    LET last == LastPosition(events', IsProgress) IN
    /\ last > LastPosition(events', IsParsedListing)
    /\ events'[last].n = AllottedEnd(idx, total_companies)

\* C22: whenever the turn of a company whose listing page was fetched and
\* parsed ends, the last progress value emitted is the end of the company's
\* allotted range, floor(idx*80/total) + floor(80/total).
C22_CompanyEndsAtAllottedEnd == [][EndsAtAllottedEnd]_vars

\* the third of three companies is over: its listing had one posting whose
\* detail fetch failed, and the last value is 53 + 26
C22_Witness ==
  /\ pc = "company"
  /\ Len(selected) = 3
  /\ idx = 3
  /\ ListingParsedInLastTurn(events)
  /\ \E p \in Positions : FailedDetail(events[p]) /\ events[p].company = selected[3]
  /\ LastEvent = Progress(79)

(* ------------------------------------------------------------------ *)
(* C23                                                                 *)
(* ------------------------------------------------------------------ *)
\* the sink phase opens with the "Preparing Excel file" status line
SinkStarts == {p \in Positions : events[p] = Status("preparing", "", NoTitle, 0)}

\* C23: every progress value emitted is in 0..100; the values emitted before
\* the sink phase opens are at most 80, the values emitted after are at least 80.
C23_ProgressRanges ==
  LET starts == SinkStarts IN
  \A p \in Positions :
    IsProgress(events[p]) =>
      /\ events[p].n \in 0..100
      /\ (\A q \in starts : p < q) => events[p].n <= 80
      /\ (\E q \in starts : q < p) => events[p].n >= 80

\* a successful run of one company with two records or more: the company
\* loop ends at 80, the first insert is below 95 and the save ends at 100
C23_Witness ==
  /\ Done
  /\ LastEvent.ok
  /\ Len(all_jobs) >= 2
  /\ \E q \in SinkStarts :
       /\ events[q - 1] = Progress(80)
       /\ \E p \in (q + 1)..Len(events) : IsProgress(events[p]) /\ events[p].n \in 81..94
       /\ \E p \in (q + 1)..Len(events) : events[p] = Progress(100)

(* ------------------------------------------------------------------ *)
(* The detail adapters                                                 *)
(* ------------------------------------------------------------------ *)
\* A string is the sequence of its lines (str.split("\n")): the empty string
\* is one empty line. A line is its length and whether it holds one of the
\* markers of boilerplate that parsers/flexion_robotics.py looks for (the
\* copyright sign, "cookie", "imprint", "privacy policy").
Line(len, marked) == [len |-> len, marked |-> marked]
EmptyLine == Line(0, FALSE)
EmptyText == <<EmptyLine>>

ShortLine == Line(8, FALSE)
MidLine == Line(18, FALSE)
LongLine == Line(320, FALSE)
CopyrightLine == Line(30, TRUE)

\* len(text)
RECURSIVE Chars(_)
Chars(text) ==
  IF Len(text) = 1 THEN text[1].len ELSE text[1].len + 1 + Chars(Tail(text))

\* not text.strip(): the lines of a text are stripped strings or empty
IsBlankText(text) == \A k \in 1..Len(text) : text[k].len = 0

\* "\n".join(lines)
JoinLines(lines) == IF lines = <<>> THEN EmptyText ELSE lines

\* [l for l in text.splitlines() if len(l.strip()) > n]
LinesLongerThan(text, n) == SelectSeq(text, LAMBDA l : l.len > n)

\* [line.strip() for line in text.splitlines() if line.strip()]
NonEmptyLines(text) == SelectSeq(text, LAMBDA l : l.len > 0)

\* any(word in text.lower() for word in [...])
HasMarker(text) == \E k \in 1..Len(text) : text[k].marked

\* the lines before the first one that holds a marker
RECURSIVE UntilMarker(_)
UntilMarker(lines) ==
  IF lines = <<>> \/ Head(lines).marked THEN <<>>
  ELSE <<Head(lines)>> \o UntilMarker(Tail(lines))

\* a detail page: its top-level blocks in document order, and whether they sit
\* in a <body>. A block is a <div> of one class, a <main>, an <article>, a
\* Framer text block, or text outside every container ("plain"); its strings
\* are the stripped, non-empty strings get_text(strip=True) yields from it
Block(kind, strings) == [kind |-> kind, strings |-> strings]
Page(body, blocks) == [body |-> body, blocks |-> blocks]

\* el.get_text(separator="\n", strip=True)
get_text(strings) == JoinLines(strings)

\* detail_soup.get_text(...), body.get_text(...)
RECURSIVE AllStrings(_)
AllStrings(blocks) ==
  IF blocks = <<>> THEN <<>> ELSE Head(blocks).strings \o AllStrings(Tail(blocks))
PageText(page) == get_text(AllStrings(page.blocks))

\* find_all: the blocks of one kind, in document order
FindAll(page, kind) == SelectSeq(page.blocks, LAMBDA b : b.kind = kind)
\* find(...) is not None
Has(page, kind) == FindAll(page, kind) # <<>>
\* find(...).get_text(...): the first match
TextOf(page, kind) == get_text(FindAll(page, kind)[1].strings)

\* the text of the first kind of the list that the page has, Otherwise if it
\* has none
RECURSIVE FirstOf(_, _, _)
FirstOf(page, kinds, Otherwise) ==
  IF kinds = <<>> THEN Otherwise
  ELSE IF Has(page, Head(kinds)) THEN TextOf(page, Head(kinds))
  ELSE FirstOf(page, Tail(kinds), Otherwise)

\* "\n\n".join(texts)
RECURSIVE JoinParagraphs(_)
JoinParagraphs(texts) ==
  IF texts = <<>> THEN EmptyText
  ELSE IF Len(texts) = 1 THEN texts[1]
  ELSE texts[1] \o <<EmptyLine>> \o JoinParagraphs(Tail(texts))

SectionTexts(page) ==
  LET sections == FindAll(page, "section")
  IN [k \in 1..Len(sections) |-> get_text(sections[k].strings)]

\* main.py, lever_detail_parser (RIVR and Gravis Robotics in COMPANIES)
lever_detail_parser(page) == JoinParagraphs(SectionTexts(page))

\* main.py, anybotics_detail_parser
anybotics_detail_parser(page) ==
  FirstOf(page, <<"description", "main", "content">>, PageText(page))

\* main.py, mimic_detail_parser
mimic_detail_parser(page) ==
  FirstOf(page, <<"main", "article">>, IF page.body THEN PageText(page) ELSE EmptyText)

\* main.py, leica_detail_parser
leica_detail_parser(page) ==
  FirstOf(page, <<"job-description", "description", "content", "main">>, EmptyText)

\* main.py, hexagon_robotics_detail_parser
hexagon_robotics_detail_parser(page) ==
  IF \E kind \in {"job-description", "description", "content", "oj-content"} : Has(page, kind)
  THEN FirstOf(page, <<"job-description", "description", "content", "oj-content">>, EmptyText)
  ELSE IF Has(page, "main") THEN JoinLines(LinesLongerThan(TextOf(page, "main"), 20))
  ELSE IF page.body THEN JoinLines(LinesLongerThan(PageText(page), 20))
  ELSE EmptyText

\* main.py, flexion_detail_parser
flexion_detail_parser(page) ==
  FirstOf(page, <<"description", "job-description", "content">>,
          IF page.body THEN JoinLines(LinesLongerThan(PageText(page), 15)) ELSE EmptyText)

\* main.py, flyability_detail_parser
flyability_detail_parser(page) ==
  FirstOf(page, <<"job-description", "description", "content", "entry-content",
                  "main", "article">>, EmptyText)

\* parsers/gravis_robotics.py: the ultimate fallback
GravisBodyText(page) == JoinLines(LinesLongerThan(PageText(page), 10))

\* parsers/gravis_robotics.py: the first of alt_containers whose text is longer
\* than 200 characters
RECURSIVE GravisAlternative(_, _)
GravisAlternative(page, kinds) ==
  IF kinds = <<>> THEN GravisBodyText(page)
  ELSE IF Has(page, Head(kinds)) /\ Chars(TextOf(page, Head(kinds))) > 200
       THEN TextOf(page, Head(kinds))
  ELSE GravisAlternative(page, Tail(kinds))

\* parsers/gravis_robotics.py, detail_parser
gravis_robotics_detail_parser(page) ==
  IF Has(page, "section") THEN JoinParagraphs(SectionTexts(page))
  ELSE GravisAlternative(page, <<"posting-description", "description", "article",
                                 "content", "main">>)

\* parsers/flexion_robotics.py: the last resort
FlexionLastResort(page) ==
  LET cleaned == JoinLines(UntilMarker(LinesLongerThan(PageText(page), 15)))
  IN IF Chars(cleaned) > 200 THEN cleaned ELSE EmptyText

\* parsers/flexion_robotics.py: a candidate is passed over when it has fewer
\* than 5 lines or holds a marker, or when it is no longer than 300 characters
FlexionGoodCandidate(text) ==
  /\ Len(NonEmptyLines(text)) >= 5
  /\ ~HasMarker(text)
  /\ Chars(text) > 300

RECURSIVE FlexionCandidate(_, _)
FlexionCandidate(page, kinds) ==
  IF kinds = <<>> THEN FlexionLastResort(page)
  ELSE IF Has(page, Head(kinds)) /\ FlexionGoodCandidate(TextOf(page, Head(kinds)))
       THEN TextOf(page, Head(kinds))
  ELSE FlexionCandidate(page, Tail(kinds))

\* parsers/flexion_robotics.py, detail_parser
flexion_robotics_detail_parser(page) ==
  FlexionCandidate(page, <<"framer-text", "job-description", "description", "article",
                           "content", "main">>)

\* what a detail page can hold: one block of any kind, and the pages of up to
\* MaxBlocks blocks in which containers and plain text follow one another
DetailAdapters ==
  {"lever", "anybotics", "mimic", "leica", "hexagon_robotics", "flexion", "flyability",
   "parsers.gravis_robotics", "parsers.flexion_robotics"}
BlockKinds ==
  {"section", "posting-description", "description", "job-description", "content",
   "oj-content", "entry-content", "framer-text", "main", "article", "plain"}
\* a posting of five lines and more than 300 characters
Posting == <<LongLine, MidLine, MidLine, MidLine, MidLine>>
BlockStrings ==
  {<<>>, <<ShortLine>>, <<MidLine>>, <<LongLine>>, Posting, <<CopyrightLine, LongLine>>}
Blocks == {Block(kind, strings) : kind \in BlockKinds, strings \in BlockStrings}
RepeatedBlocks ==
  {Block(kind, strings) :
     kind \in {"section", "description", "content", "main", "plain"},
     strings \in {<<ShortLine>>, <<LongLine>>}}
Pages ==
  {Page(body, blocks) :
     body \in BOOLEAN,
     blocks \in {<<b>> : b \in Blocks} \cup SeqsUpTo(RepeatedBlocks, MaxBlocks)}

\* one call of a detail adapter, before it is made
DetailInput(adapter, page) ==
  [adapter |-> adapter, soup |-> page, called |-> FALSE, out |-> EmptyText]

DetailInit ==
  /\ scope = "details"
  /\ window = WindowReady
  /\ parse \in {DetailInput(a, page) : a \in DetailAdapters, page \in Pages}
  /\ runs = 0
  /\ pc = "idle"
  /\ selected = <<>>
  /\ today_date = 0
  /\ idx = 0
  /\ job_list = <<>>
  /\ i = 0
  /\ all_jobs = <<>>
  /\ wb = NoWorkbook
  /\ j = 0
  /\ file = Absent
  /\ saved = <<>>
  /\ events = <<>>

\* cfg["detail_parser"](detail_soup) for the adapter under study
Describes(description) ==
  /\ ~parse.called
  /\ parse' = [parse EXCEPT !.called = TRUE, !.out = description]
  /\ UNCHANGED <<scope, window, runs, pc, selected, today_date, idx, job_list, i,
                 all_jobs, wb, j, file, saved, events>>

LeverDetail ==
  /\ parse.adapter = "lever"
  /\ Describes(lever_detail_parser(parse.soup))
AnyboticsDetail ==
  /\ parse.adapter = "anybotics"
  /\ Describes(anybotics_detail_parser(parse.soup))
MimicDetail ==
  /\ parse.adapter = "mimic"
  /\ Describes(mimic_detail_parser(parse.soup))
LeicaDetail ==
  /\ parse.adapter = "leica"
  /\ Describes(leica_detail_parser(parse.soup))
HexagonRoboticsDetail ==
  /\ parse.adapter = "hexagon_robotics"
  /\ Describes(hexagon_robotics_detail_parser(parse.soup))
FlexionDetail ==
  /\ parse.adapter = "flexion"
  /\ Describes(flexion_detail_parser(parse.soup))
FlyabilityDetail ==
  /\ parse.adapter = "flyability"
  /\ Describes(flyability_detail_parser(parse.soup))
GravisRoboticsModuleDetail ==
  /\ parse.adapter = "parsers.gravis_robotics"
  /\ Describes(gravis_robotics_detail_parser(parse.soup))
FlexionRoboticsModuleDetail ==
  /\ parse.adapter = "parsers.flexion_robotics"
  /\ Describes(flexion_robotics_detail_parser(parse.soup))

DetailNext ==
  \/ LeverDetail
  \/ AnyboticsDetail
  \/ MimicDetail
  \/ LeicaDetail
  \/ HexagonRoboticsDetail
  \/ FlexionDetail
  \/ FlyabilityDetail
  \/ GravisRoboticsModuleDetail
  \/ FlexionRoboticsModuleDetail

DetailSpec == DetailInit /\ [][DetailNext]_vars

(* ------------------------------------------------------------------ *)
(* C24                                                                 *)
(* ------------------------------------------------------------------ *)
\* the page has no site-specific container, no named container class and no
\* main or article tag: all of its text is outside every container
NoContainer(page) ==
  \A k \in 1..Len(page.blocks) : page.blocks[k].kind = "plain"

\* the page opens with a long line of text that no adapter's noise filter
\* drops, and holds no marker of boilerplate
HasPlainPosting(page) ==
  /\ page.body
  /\ page.blocks # <<>>
  /\ page.blocks[1].strings # <<>>
  /\ page.blocks[1].strings[1] = LongLine
  /\ ~HasMarker(PageText(page))

\* C24: on a page that has text and to which no container strategy applies,
\* every detail adapter ends in the whole-page extraction, and so returns a
\* description that is not empty.
C24_LastResortWholePage ==
  (Called /\ NoContainer(parse.soup) /\ HasPlainPosting(parse.soup)) =>
    ~IsBlankText(parse.out)

(* ------------------------------------------------------------------ *)
(* C25                                                                 *)
(* ------------------------------------------------------------------ *)
\* the run is over and has collected no record
EndedEmpty == Done /\ all_jobs = <<>>

\* a step of a run whose batch is empty leaves the file as it is and opens no
\* workbook
EmptyBatchKeepsTable ==
  (pc # "idle" /\ all_jobs' = <<>>) => (file' = file /\ wb' = NoWorkbook)

\* the run made no call on the workbook
NoTableCall == \A p \in Positions : ~IsTableCall(events[p])

\* C25: a run that collects no record makes no call on the workbook, never
\* changes the file, and ends with the success event whose message says that
\* no job descriptions were collected.
C25_EmptyBatchLeavesTable ==
  /\ [](EndedEmpty => (NoTableCall /\ LastEvent = Finished(TRUE, "no_descriptions", 0)))
  /\ [][EmptyBatchKeepsTable]_vars

\* the second run ends empty after a failed detail fetch, and the table of the
\* first run is still what the first run saved
C25_Witness ==
  /\ EndedEmpty
  /\ runs = 2
  /\ file.state = "table"
  /\ Len(saved) = 1
  /\ \E p \in Positions : FailedDetail(events[p])
  /\ LastEvent = Finished(TRUE, "no_descriptions", 0)

(* ------------------------------------------------------------------ *)
(* C26                                                                 *)
(* ------------------------------------------------------------------ *)
\* rows has exactly one header row, and it is row 1
OneHeaderOnTop(rows) ==
  /\ rows # <<>>
  /\ rows[1] = HEADER
  /\ \A k \in 2..Len(rows) : rows[k] # HEADER

\* the data rows (all rows but the header)
DataRows(rows) == Tail(rows)

\* old is the end of new: the rows of old keep their content and order, below
\* the rows that new has on top of them
KeptBelow(old, new) ==
  /\ Len(old) <= Len(new)
  /\ SubSeq(new, Len(new) - Len(old) + 1, Len(new)) = old

\* a workbook is opened: the sheet is the file's rows as they are, and only a
\* workbook made for an absent file gets the header row
OpensAsSaved ==
  (wb = NoWorkbook /\ wb' # NoWorkbook) =>
    wb' = IF file.state = "table" THEN file.rows ELSE <<HEADER>>

\* a row is inserted: row 1 stays and the rows below the new one keep their
\* content and order
InsertsBelowHeader ==
  (wb # NoWorkbook /\ wb' # wb /\ wb' # NoWorkbook) =>
    /\ Len(wb') = Len(wb) + 1
    /\ wb'[1] = wb[1]
    /\ wb'[2] # HEADER
    /\ KeptBelow(DataRows(wb), DataRows(wb'))

\* the file is written: the data rows it held stay at its end
SaveKeepsEarlierRows ==
  (file' # file /\ file'.state = "table") =>
    /\ file' = Table(wb)
    /\ file.state = "table" => KeptBelow(DataRows(file.rows), DataRows(file'.rows))

\* C26: starting from an absent file, the table on disk and the open sheet
\* always have exactly one header row, in row 1; only a workbook made for an
\* absent file gets a header; every insert leaves row 1 in place; and the data
\* rows of earlier runs keep their content and order below those of later runs.
C26_OneHeaderRowOnTop ==
  /\ [](file.state = "table" => OneHeaderOnTop(file.rows))
  /\ [](wb # NoWorkbook => OneHeaderOnTop(wb))
  /\ [][OpensAsSaved /\ InsertsBelowHeader /\ SaveKeepsEarlierRows]_vars

\* the second of two saving runs is over: one header on top, the rows of the
\* second run next, the rows of the first run last
C26_Witness ==
  /\ Done
  /\ Len(saved) = 2
  /\ file.state = "table"
  /\ OneHeaderOnTop(file.rows)
  /\ Len(file.rows) = 1 + Len(saved[1]) + Len(saved[2])
  /\ KeptBelow(Rows(saved[1]), DataRows(file.rows))
  /\ file.rows[2][1] = 2

(* ------------------------------------------------------------------ *)
(* C27                                                                 *)
(* ------------------------------------------------------------------ *)
\* the window is the one that starts the Workers
Windowed == scope = "gui"

\* a Worker is between the start of run() and its terminal event
WorkerActive == pc \notin {"idle", "done"}

\* the step starts a Worker
StartsWorker == runs' = runs + 1

\* a Worker is started by a click on the enabled button, when no Worker is
\* active, and the click disables the button
StartedByEnabledButton ==
  (Windowed /\ StartsWorker) =>
    /\ ~WorkerActive
    /\ window.button
    /\ ~window'.button

\* the button is enabled again only by the slot of the terminal event
EnabledByTerminalEvent ==
  (Windowed /\ ~window.button /\ window'.button) =>
    /\ Done
    /\ LastEvent.sig = "finished"
    /\ window'.dialog = (IF LastEvent.ok THEN "information" ELSE "critical")
    /\ UNCHANGED <<runs, pc, events>>

\* a rejected selection: the warning opens, no Worker is started and the
\* button stays enabled
RejectedStartsNothing ==
  (Windowed /\ window.dialog # "warning" /\ window'.dialog = "warning") =>
    /\ window.button
    /\ window'.button
    /\ UNCHANGED <<runs, pc, selected, events>>

\* C27: while a Worker is active the Run button is disabled, so a second Worker
\* is never started beside it; the button is disabled by the click that starts
\* a Worker and enabled again by the handling of its terminal event, which is
\* possible after every terminal event, success or failure; a rejected
\* selection starts nothing and leaves the button enabled.
C27_OneWorkerAtATime ==
  /\ []((Windowed /\ WorkerActive) => ~window.button)
  /\ []((Windowed /\ Done /\ ~window.button) => ENABLED scraper_finished)
  /\ [][StartedByEnabledButton /\ EnabledByTerminalEvent /\ RejectedStartsNothing]_vars

\* the first run ended in a failed save that left the file unreadable, its
\* terminal event was handled, and the second Worker is active
C27_Witness ==
  /\ Windowed
  /\ runs = 2
  /\ file = Corrupt
  /\ WorkerActive
  /\ ~window.button

====
